---------------------------- MODULE Spec2Model ----------------------------
(***************************************************************************)
(* Statement coordination layer of the openGemini SQL node                 *)
(* (app/ts-sql/sql/server.go): statement dispatch, the retry wrappers, the *)
(* streaming SELECT with its producer goroutine and rowChanProxy, the      *)
(* result mergers, the exact-cardinality fan-out and the running-query     *)
(* view.                                                                   *)
(*                                                                         *)
(* Time is counted in ticks of one retry sleep                             *)
(* (coordinator.DMLRetryInternalMillisecond); the wall-clock budget        *)
(* coordinator.DMLTimeOutSecond is DMLTimeOut ticks.                       *)
(***************************************************************************)
EXTENDS Integers, Sequences, FiniteSets, TLC

\* ------------------------------------------------------------------ bounds
\* Wall-clock retry budget, in ticks of one retry sleep.
DMLTimeOut == 3
\* Longest time one attempt of the dependency may take, in ticks.
MaxAttemptTicks == 2
\* Most row batches one plan execution emits.
MaxBatches == 2

\* ------------------------------------------------------- program constants
maxRetrySelectCount == 8

\* ------------------------------------------------------------------ errors
\* Error values.  "nil" is the nil error.
ErrNil == "nil"
\* ctx.Err() of a cancelled context.
ErrCtx == "errCtx"
\* The error of a failed ctx.Send (the sink is gone).
ErrSend == "errSend"
\* meta2.ErrUnsupportCommand and query2.ErrInvalidQuery.
ErrUnsupportCommand == "ErrUnsupportCommand"
ErrInvalidQuery == "ErrInvalidQuery"

\* coordinator.IsRetriedError: the retriable error class.
IsRetriedError(err) == err \in {"errRetried", "errRetriedPtView"}

\* coordinator.IsRetryErrorForPtView: the partition-view retry class.
IsRetryErrorForPtView(err) == err \in {"errPtView", "errRetriedPtView"}

\* strings.Contains(err.Error(), s) for the three texts the code looks for.
ErrorContains(err, s) ==
    \/ s = "repeat mark delete" /\ err = "errMarkDelete"
    \/ s = "max message size" /\ err = "errMaxMsg"
    \/ s = "declare empty collection" /\ err = "errEmptyColl"

\* The errors an attempt of a retried non-SELECT statement may return.
StmtErrors == {"errRetried", "errMarkDelete", "errDatabaseNotFound", "errInternal"}
\* The errors a handler the type switch calls directly may return.
HandlerErrors == {"errDatabaseNotFound", "errInternal"}
\* The errors executor.Select may return.
CreateErrors == {"errRetried", "errRetriedPtView", "errPtView", "errMaxMsg",
                 "errEmptyColl", "errInternal"}
\* The errors PipelineExecutor.ExecuteExecutor may return.
ExecErrors == {"errPtView", "errInternal"}

\* Rows an attempt may hand back; NoRows is the nil models.Rows.
NoRows == "nilRows"
RowSets == {"rowsA", "rowsB"}

\* ------------------------------------------------------- statement kinds
\* A statement kind is the name of its influxql type without "Statement".
\* Kinds whose branch of the type switch returns ErrUnsupportCommand at once.
UnsupportedKinds == {"DeleteSeries", "DropSeries", "DropShard", "ShowDiagnostics",
                     "PrepareSnapshot", "EndPrepareSnapshot", "GetRuntimeInfo"}
\* Kinds whose branch returns ErrUnsupportCommand when stmt.Condition != nil.
ConditionKinds == {"ShowMeasurements", "ShowMeasurementCardinality"}
\* Kinds whose branch calls retryExecuteStatement.
RetryKinds == {"DropDatabase", "DropMeasurement", "DropRetentionPolicy", "Explain",
               "ShowMeasurements", "ShowMeasurementCardinality",
               "ShowSeriesCardinality", "ShowFieldKeys", "ShowFieldKeyCardinality",
               "ShowTagKeys", "ShowTagKeyCardinality", "ShowTagValues",
               "ShowSeries", "ShowTagValuesCardinality"}
\* Kinds whose handler hands rows back to retryExecuteStatement.
RowsKinds == {"Explain", "ShowMeasurementCardinality", "ShowSeriesCardinality",
              "ShowTagValues", "ShowTagValuesCardinality"}
\* Kinds whose handler is given ctx and seq and sends Results itself.
SendingKinds == {"ShowMeasurements", "ShowFieldKeys", "ShowFieldKeyCardinality",
                 "ShowTagKeys", "ShowTagKeyCardinality", "ShowSeries"}
\* Of those, the kinds whose handler sends one Result per measurement.
PerMeasurementKinds == {"ShowFieldKeys", "ShowFieldKeyCardinality",
                        "ShowTagKeys", "ShowTagKeyCardinality"}
\* Kinds whose branch returns what retryExecuteStatement returned at once.
ReturnErrKinds == {"ShowMeasurements", "ShowFieldKeys", "ShowFieldKeyCardinality",
                   "ShowTagKeys", "ShowSeries"}
\* Kinds whose branch calls a handler that returns an error only.
ErrHandlerKinds == {"AlterRetentionPolicy", "AlterShardKey", "CreateDatabase",
                    "CreateMeasurement", "CreateRetentionPolicy",
                    "CreateSubscription", "CreateContinuousQuery",
                    "DropContinuousQuery", "CreateUser", "DropSubscription",
                    "DropUser", "Grant", "GrantAdmin", "Revoke", "RevokeAdmin",
                    "SetPasswordUser", "CreateDownSample", "DropDownSample",
                    "CreateStream", "DropStreams", "SetConfig"}
\* Kinds whose branch calls a handler that returns rows and an error.
RowsHandlerKinds == {"ShowContinuousQueries", "ShowDatabases", "ShowGrantsForUser",
                     "ShowMeasurementKeys", "ShowRetentionPolicies", "ShowShards",
                     "ShowShardGroups", "ShowSubscriptions", "ShowUsers",
                     "ShowQueries", "ShowDownSample", "ShowStreams", "ShowConfigs"}
\* The kinds the type switch has a branch for, SELECT apart.
BranchKinds == UnsupportedKinds \cup RetryKinds \cup ErrHandlerKinds
                   \cup RowsHandlerKinds \cup {"KillQuery"}
\* A statement type the type switch has no branch for.
OtherKinds == {"Delete", "ShowStats"}
\* The kinds the streaming-SELECT specification dispatches.
StmtKinds == {"Select", "DropDatabase", "ShowTagValues"}
\* The kinds the dispatcher specification dispatches.
NonSelectKinds == BranchKinds \cup OtherKinds

\* Sequence numbers ExecuteStatement may be called with.
SeqNums == {4, 5}

VARIABLES
    \* ---- ExecuteStatement
    stmtKind,     \* the statement's kind
    seq,          \* the sequence number argument
    pc,           \* position of the calling goroutine
    ret,          \* ExecuteStatement's return value once pc = "returned"
    sink,         \* Results the sink accepted during the current
                  \* executeSelectStatement call or dispatcher Send, in order
    sentEarlier,  \* the sink accepted a Result in an earlier attempt
    sendCalls,    \* ctx.Send calls made in the current attempt
    stmtCondition, \* stmt.Condition != nil
    stmtHost,     \* stmt.Host != ""
    stmtAnalyze,  \* stmt.Analyze of an explain statement
    ctxReadOnly,  \* ctx.ReadOnly
    hErr,         \* err of ExecuteStatement after a handler it calls directly
    hRows,        \* rows of ExecuteStatement after a handler it calls directly
    called,       \* what the call has called so far: "retry" the retry
                  \* wrapper, "handler" a handler reaching the meta client
                  \* or the storage transport, and for executeKillQuery
                  \* "meta" (DataNodes) and "storage" (KillQueryOnNode)
    \* ---- retryExecuteStatement
    rsNow,        \* time.Now().Sub(startTime)
    rsRetryNum,   \* retryNum
    rsErr,        \* err
    rsRows,       \* rows
    rsLog,        \* what each attempt of the dependency returned, in order
    rsSleeps,     \* number of time.Sleep calls made
    \* ---- retryExecuteSelectStatement
    selI,         \* the loop index i
    selErr,       \* err of the last executeSelectStatement call
    selBackoff,   \* the last backoff slept, in units of retrySelectInterval
    \* ---- retryCreatePipelineExecutor
    cpNow,        \* time.Now().Sub(startTime)
    cpRetryNum,   \* retryNum
    cpPlan,       \* the returned pipelineExecutor: TRUE when not nil
    cpErr,        \* the returned error
    cpLast,       \* what the last call of executor.Select did ("none":
                  \* no call yet in this executeSelectStatement)
    \* ---- executeSelectStatement and its goroutines
    emitted,      \* emitted
    closed,       \* closed
    reachedWait,  \* the caller got to wg.Wait()
    ctxDone,      \* ctx.Done() is closed
    aborted,      \* pipelineExecutor.Abort() was called
    prodPc,       \* position of the producer goroutine
    prodSent,     \* batches the plan has emitted so far
    rcPending,    \* the batch a blocked send on proxy.rc offers, or <<>>
    rcClosed,     \* proxy.rc is closed
    finClosed,    \* proxy.finished is closed
    ec,           \* contents of the buffered channel ec
    execRet,      \* what ExecuteExecutor returned, "none" while it runs
    drainPc,      \* position of the goroutine running proxy.wait()
    drained       \* batches proxy.wait() received and dropped

execVars == <<stmtKind, seq, pc, ret, sink, sentEarlier, sendCalls>>
stmtVars == <<stmtCondition, stmtHost, stmtAnalyze, ctxReadOnly, hErr, hRows,
              called>>
rsVars == <<rsNow, rsRetryNum, rsErr, rsRows, rsLog, rsSleeps>>
selRetryVars == <<selI, selErr, selBackoff>>
cpVars == <<cpNow, cpRetryNum, cpPlan, cpErr, cpLast>>
streamVars == <<emitted, closed, reachedWait, ctxDone, aborted, prodPc, prodSent,
                rcPending, rcClosed, finClosed, ec, execRet, drainPc, drained>>

dispatchVars == <<execVars, stmtVars, rsVars, selRetryVars, cpVars, streamVars>>

VARIABLES
    \* ---- the result mergers
    mKind,        \* which merge function is applied
    mIn,          \* its argument: per node, the node's reply
    mOut,         \* its result
    mAgain,       \* the result of merging the argument and one more reply
    mPc           \* "start", "merged", "remerged" ("off": not in use)

mergeVars == <<mKind, mIn, mOut, mAgain, mPc>>

VARIABLES
    \* ---- showSeriesExactCardinality
    cardPc,       \* position of the calling goroutine
    cbPc,         \* per node, the position of its callback
    cbTmp,        \* per node, the reply of SeriesExactCardinality
    cbRet,        \* per node, what the callback returned
    hasErr,       \* the flag *hasErr shared by the callbacks
    cardRet,      \* the map ret
    cardRows,     \* the rows returned
    cardErr       \* the error returned

cardVars == <<cardPc, cbPc, cbTmp, cbRet, hasErr, cardRet, cardRows, cardErr>>

VARIABLES
    \* ---- the running-query view
    qPc,          \* position of executeShowQueriesStatement
    qInfos,       \* infosOnAllStore: per node, its entries once it answered
    qNode,        \* number of nodes whose entries are combined
    resMap,       \* the map resMap, from query id to combined entry
    qRows         \* the values of the row returned

queryVars == <<qPc, qInfos, qNode, resMap, qRows>>

VARIABLES
    \* ---- executeKillQuery
    kPc,           \* position of the calling goroutine
    kHost,         \* whether the statement names a host
    kGoPc,         \* per node, the position of its goroutine
    kReply,        \* per node, what KillQueryOnNode answered
    kTmp,          \* per node, the value of notFoundCount its ++ has read
    kErr,          \* the variable err, shared by the goroutines
    notFoundCount, \* the variable notFoundCount, shared by the goroutines
    kRet           \* the error returned

killVars == <<kPc, kHost, kGoPc, kReply, kTmp, kErr, notFoundCount, kRet>>

VARIABLES
    \* ---- limitStringSlice
    lPc,           \* "start", "returned", "panicked" ("off": not in use)
    lS,            \* the slice s
    lOffset,       \* offset
    lLimit,        \* limit
    lOut           \* the slice returned

limitVars == <<lPc, lS, lOffset, lLimit, lOut>>

VARIABLES
    \* ---- the show tag keys / show field keys handlers
    skPc,          \* "start", "loop", "returned" ("off": not in use)
    skKind,        \* which of the four handlers runs
    skMap,         \* the keys the metadata service holds, per measurement
    skOffset,      \* q.Offset
    skLimit,       \* q.Limit
    skTable,       \* tagKeys / fieldKeys, what TagKeys or FieldKeys returned
    skI,           \* the index of the loop over the table
    skEmitted,     \* emitted
    skSink,        \* the Results the sink accepted, in order
    skRet          \* the error returned

keysVars == <<skPc, skKind, skMap, skOffset, skLimit, skTable, skI, skEmitted,
              skSink, skRet>>

VARIABLES
    \* ---- Statistics
    dbStatCount,   \* the package variable dbStatCount
    stCalls,       \* history: the calls that returned without error so far
    stFailures,    \* history: the calls that returned an error so far
    stLast         \* history: what the last call did

statVars == <<dbStatCount, stCalls, stFailures, stLast>>

vars == <<dispatchVars, mergeVars, cardVars, queryVars, killVars, limitVars,
          keysVars, statVars>>

\* The state of the parts a specification does not exercise.
DispatchIdle ==
    /\ stmtKind = "none" /\ seq = 0 /\ pc = "off" /\ ret = "nil"
    /\ sink = <<>> /\ sentEarlier = FALSE /\ sendCalls = 0
    /\ stmtCondition = FALSE /\ stmtHost = FALSE /\ ctxReadOnly = FALSE
    /\ stmtAnalyze = FALSE
    /\ hErr = "nil"
    /\ hRows = "nilRows" /\ called = {}
    /\ rsNow = 0 /\ rsRetryNum = 0 /\ rsErr = "nil" /\ rsRows = "nilRows"
    /\ rsLog = <<>> /\ rsSleeps = 0
    /\ selI = 0 /\ selErr = "nil" /\ selBackoff = 0
    /\ cpNow = 0 /\ cpRetryNum = 0 /\ cpPlan = FALSE /\ cpErr = "nil"
    /\ cpLast = "none"
    /\ emitted = FALSE /\ closed = FALSE /\ reachedWait = FALSE
    /\ ctxDone = FALSE /\ aborted = FALSE /\ prodPc = "idle" /\ prodSent = 0
    /\ rcPending = <<>> /\ rcClosed = FALSE /\ finClosed = FALSE
    /\ ec = <<>> /\ execRet = "none" /\ drainPc = "off" /\ drained = 0

MergeIdle ==
    /\ mKind = "none" /\ mIn = <<>> /\ mOut = <<>> /\ mAgain = <<>> /\ mPc = "off"

CardIdle ==
    /\ cardPc = "off" /\ cbPc = <<>> /\ cbTmp = <<>> /\ cbRet = <<>>
    /\ hasErr = FALSE /\ cardRet = <<>> /\ cardRows = <<>> /\ cardErr = "nil"

QueryIdle ==
    /\ qPc = "off" /\ qInfos = <<>> /\ qNode = 0 /\ resMap = <<>> /\ qRows = <<>>

KillIdle ==
    /\ kPc = "off" /\ kHost = FALSE /\ kGoPc = <<>> /\ kReply = <<>> /\ kTmp = <<>>
    /\ kErr = "nil" /\ notFoundCount = 0 /\ kRet = "nil"

LimitIdle ==
    /\ lPc = "off" /\ lS = <<>> /\ lOffset = 0 /\ lLimit = 0 /\ lOut = <<>>

KeysIdle ==
    /\ skPc = "off" /\ skKind = "none" /\ skMap = <<>> /\ skOffset = 0
    /\ skLimit = 0 /\ skTable = <<>> /\ skI = 0 /\ skEmitted = FALSE
    /\ skSink = <<>> /\ skRet = "nil"

StatIdle ==
    /\ dbStatCount = 0 /\ stCalls = 0 /\ stFailures = 0 /\ stLast = "none"

\* What a step of ExecuteStatement leaves alone: the other parts, and for
\* the steps below the type switch also the statement's fields and err, rows.
OtherPartsFrame ==
    UNCHANGED <<mergeVars, cardVars, queryVars, killVars, limitVars, keysVars, statVars>>
DispatchFrame == OtherPartsFrame /\ UNCHANGED stmtVars
MergeFrame ==
    UNCHANGED <<dispatchVars, cardVars, queryVars, killVars, limitVars, keysVars, statVars>>
CardFrame ==
    UNCHANGED <<dispatchVars, mergeVars, queryVars, killVars, limitVars, keysVars, statVars>>
QueryFrame ==
    UNCHANGED <<dispatchVars, mergeVars, cardVars, killVars, limitVars, keysVars, statVars>>
KillFrame ==
    UNCHANGED <<dispatchVars, mergeVars, cardVars, queryVars, limitVars, keysVars, statVars>>
LimitFrame ==
    UNCHANGED <<dispatchVars, mergeVars, cardVars, queryVars, killVars, keysVars, statVars>>
KeysFrame ==
    UNCHANGED <<dispatchVars, mergeVars, cardVars, queryVars, killVars, limitVars,
                statVars>>
StatFrame ==
    UNCHANGED <<dispatchVars, mergeVars, cardVars, queryVars, killVars, limitVars,
                keysVars>>

\* ------------------------------------------------------------- ctx.Send
\* A Result as the sink sees it.
Result(series, partial, s) ==
    [series |-> series, partial |-> partial, seq |-> s, messages |-> <<>>]
EmptyResult(s) == Result("empty", FALSE, s)

\* ----------------------------------------------------- ExecuteStatement
\* Most measurements a per-measurement handler finds keys for.
MaxMeasurements == 2

\* The type switch has a branch for the kind (SELECT is taken before it).
EveryKindHasBranch(kind) == TRUE

HasBranch(kind) == kind \in BranchKinds \cup {"Select"}

\* The branch of the kind returns meta2.ErrUnsupportCommand at once.
UnsupportedWhateverCondition(kind, condition) == kind \in UnsupportedKinds

Unsupported(kind, condition) ==
    \/ kind \in UnsupportedKinds
    \/ kind \in ConditionKinds /\ condition

\* What executeKillQuery may return, and what it has called by then.
KillQueryReturns(host) ==
    IF host
    THEN {[err |-> ErrUnsupportCommand, called |-> {}]}
    ELSE {[err |-> "errDataNodes", called |-> {"meta"}],
          [err |-> "errQueryNotFound", called |-> {"meta"}],
          [err |-> "errQueryNotFound", called |-> {"meta", "storage"}],
          [err |-> ErrNil, called |-> {"meta", "storage"}]}

\* The type switch of ExecuteStatement up to the end of the branch taken.
\* A handler called directly runs to its end within the step.
ExecuteStatement ==
    /\ OtherPartsFrame
    /\ pc = "dispatch"
    /\ IF stmtKind = "Select"
       THEN /\ pc' = "selRetry"
            /\ UNCHANGED <<ret, hErr, hRows, called>>
       ELSE IF ~HasBranch(stmtKind)
       THEN /\ pc' = "returned"
            /\ ret' = ErrInvalidQuery
            /\ UNCHANGED <<hErr, hRows, called>>
       ELSE IF Unsupported(stmtKind, stmtCondition)
       THEN /\ pc' = "returned"
            /\ ret' = ErrUnsupportCommand
            /\ UNCHANGED <<hErr, hRows, called>>
       ELSE IF stmtKind \in RetryKinds
       THEN /\ pc' = "rsLoop"
            /\ called' = called \cup {"retry"}
            /\ UNCHANGED <<ret, hErr, hRows>>
       ELSE IF stmtKind = "KillQuery"
       THEN \E out \in KillQueryReturns(stmtHost) :
              /\ pc' = "handlerReturned"
              /\ hErr' = out.err
              /\ called' = called \cup out.called
              /\ UNCHANGED <<ret, hRows>>
       ELSE \E e \in HandlerErrors \cup {ErrNil},
               r \in (IF stmtKind \in RowsHandlerKinds THEN RowSets ELSE {NoRows}) :
              /\ pc' = "handlerReturned"
              /\ hErr' = e
              /\ hRows' = IF e = ErrNil THEN r ELSE NoRows
              /\ called' = called \cup {"handler"}
              /\ UNCHANGED ret
    /\ UNCHANGED <<stmtKind, seq, sink, sentEarlier, sendCalls>>
    /\ UNCHANGED <<stmtCondition, stmtHost, stmtAnalyze, ctxReadOnly>>
    /\ UNCHANGED <<rsVars, selRetryVars, cpVars, streamVars>>

\* ------------------------------------------------ retryExecuteStatement
\* The condition under which retryExecuteStatement tries again.
RetryStmtOnlyRetriedClass(err) == IsRetriedError(err)

RetryStmtEveryError(err) == TRUE

IsRetryableStmtError(err) ==
    IsRetriedError(err) \/ ErrorContains(err, "repeat mark delete")

\* The loop condition of retryExecuteStatement.
RetryStmtWithinBudget(elapsed) == elapsed < DMLTimeOut

\* strings.HasPrefix(err.Error(), s) for the text the code looks for.
ErrorHasPrefix(err, s) == s = "database not found" /\ err = "errDatabaseNotFound"

\* A drop database that hands every error of the metadata service back.
dropDatabaseKeepsError(markErr) == markErr

\* executeDropDatabaseStatement, given what MarkDatabaseDelete returned.
executeDropDatabaseStatement(markErr) ==
    IF markErr # ErrNil /\ ErrorHasPrefix(markErr, "database not found")
    THEN ErrNil
    ELSE markErr

\* executeDropRetentionPolicyStatement, given whether MetaClient.Database
\* found the database, whether that holds the policy, and what
\* MarkRetentionPolicyDelete returns: its error and the calls it made.
executeDropRetentionPolicyStatement(dbFound, rpFound, markErr) ==
    IF ~dbFound THEN [err |-> ErrNil, meta |-> {"Database"}]
    ELSE IF ~rpFound THEN [err |-> ErrNil, meta |-> {"Database"}]
    ELSE [err |-> markErr, meta |-> {"Database", "MarkRetentionPolicyDelete"}]

\* What one attempt of a retried statement may come to: its error, the
\* calls to the metadata service it is known to have made, and what the
\* metadata service reported missing.
\* What a handler that does not return leaves in place of its error.
Panics == "panic"

\* executeExplainStatement: panic("impl me").
executeExplainStatement == Panics

AttemptOutcomes(kind) ==
    IF kind = "Explain" /\ ~stmtAnalyze
    THEN {[err |-> executeExplainStatement, meta |-> {}, missing |-> "none"]}
    ELSE IF kind = "DropDatabase"
    THEN {[err |-> executeDropDatabaseStatement(m), meta |-> {"MarkDatabaseDelete"},
           missing |-> IF m = "errDatabaseNotFound" THEN "database" ELSE "none"] :
             m \in StmtErrors \cup {ErrNil}}
    ELSE IF kind = "DropRetentionPolicy"
    THEN {[err |-> executeDropRetentionPolicyStatement(db, rp, m).err,
           meta |-> executeDropRetentionPolicyStatement(db, rp, m).meta,
           missing |-> IF ~db THEN "database" ELSE IF ~rp THEN "policy" ELSE "none"] :
             db \in BOOLEAN, rp \in BOOLEAN,
             m \in (StmtErrors \ {"errDatabaseNotFound"}) \cup {ErrNil}}
    ELSE {[err |-> e, meta |-> {}, missing |-> "none"] : e \in StmtErrors \cup {ErrNil}}

\* One iteration of the loop of retryExecuteStatement: the budget test, the
\* sleep before every attempt but the first, the attempt, and what follows
\* its result.  The attempt returns error e (and rows r when it succeeds
\* and the kind hands rows back) after d ticks.  A handler that sends its
\* Results itself has then only fetched what it will send.  A handler that
\* panics unwinds the loop and ExecuteStatement, neither of which recovers.
RetryStmtIterate ==
    /\ OtherPartsFrame
    /\ pc = "rsLoop"
    /\ IF RetryStmtWithinBudget(rsNow)
       THEN \E o \in AttemptOutcomes(stmtKind), d \in 0..MaxAttemptTicks,
               r \in (IF stmtKind \in RowsKinds THEN RowSets ELSE {NoRows}) :
              LET e == o.err
                  slept == IF rsRetryNum > 0 THEN 1 ELSE 0
                  rows  == IF stmtKind \in RowsKinds
                           THEN (IF e = ErrNil THEN r ELSE NoRows)
                           ELSE rsRows
              IN  /\ rsSleeps' = rsSleeps + slept
                  /\ rsRetryNum' = rsRetryNum + 1
                  /\ rsNow' = rsNow + slept + d
                  /\ rsErr' = IF e = Panics THEN rsErr ELSE e
                  /\ rsRows' = IF e = Panics THEN rsRows ELSE rows
                  /\ rsLog' = IF e = Panics THEN rsLog
                              ELSE Append(rsLog, [err |-> e, rows |-> rows,
                                                  missing |-> o.missing])
                  /\ called' = called \cup {"handler"} \cup o.meta
                  /\ pc' = IF e = Panics THEN "panicked"
                           ELSE IF e = ErrNil
                           THEN (IF stmtKind \in SendingKinds
                                 THEN "hSend" ELSE "rsReturned")
                           ELSE IF IsRetryableStmtError(e) THEN "rsLoop"
                           ELSE "rsReturned"
       ELSE /\ pc' = "rsReturned"
            /\ UNCHANGED rsVars
            /\ UNCHANGED called
    /\ UNCHANGED <<stmtKind, seq, ret, sink, sentEarlier, sendCalls>>
    /\ UNCHANGED <<stmtCondition, stmtHost, stmtAnalyze, ctxReadOnly, hErr, hRows>>
    /\ UNCHANGED <<selRetryVars, cpVars, streamVars>>

\* The row a per-measurement handler builds for the i-th measurement that
\* has keys, and the rows of show measurements and of show series.
RowOf(i) == <<"rowM1", "rowM2", "rowM3", "rowM4">>[i]

\* The Results a handler that sends its Results itself sends, in order,
\* when it fetched n measurements with keys (n names, n series keys) and
\* every Send succeeds.
HandlerResults(kind, n, s) ==
    IF kind \in PerMeasurementKinds
    THEN (IF n = 0 THEN <<Result(NoRows, FALSE, s)>>
          ELSE [i \in 1..n |-> Result(RowOf(i), FALSE, s)])
    ELSE IF kind = "ShowMeasurements"
    THEN <<Result(IF n = 0 THEN NoRows ELSE "rowsA", FALSE, s)>>
    ELSE IF n = 0 THEN <<>> ELSE <<Result("rowsA", FALSE, s)>>

\* The rest of an attempt of executeShowMeasurementsStatement,
\* executeShowFieldKeys, executeShowFieldKeyCardinality, executeShowTagKeys,
\* executeShowTagKeyCardinality or executeShowSeries after its fetch
\* succeeded: the Sends, the first k of which succeed, and the return of
\* the error of the Send that failed.
HandlerSend ==
    /\ OtherPartsFrame
    /\ pc = "hSend"
    /\ pc' = "rsReturned"
    /\ \E n \in 0..MaxMeasurements :
         LET results == HandlerResults(stmtKind, n, seq)
         IN  \E k \in 0..Len(results) :
               LET e == IF k < Len(results) THEN ErrSend ELSE ErrNil
               IN  /\ sink' = sink \o SubSeq(results, 1, k)
                   /\ sendCalls' = sendCalls + (IF k < Len(results) THEN k + 1 ELSE k)
                   /\ rsErr' = e
                   /\ rsLog' = [rsLog EXCEPT ![Len(rsLog)].err = e]
    /\ UNCHANGED <<stmtKind, seq, ret, sentEarlier>>
    /\ UNCHANGED stmtVars
    /\ UNCHANGED <<rsNow, rsRetryNum, rsRows, rsSleeps>>
    /\ UNCHANGED <<selRetryVars, cpVars, streamVars>>

\* The branches that return what retryExecuteStatement returned at once.
DispatchReturn ==
    /\ DispatchFrame
    /\ pc = "rsReturned"
    /\ stmtKind \in ReturnErrKinds
    /\ pc' = "returned"
    /\ ret' = rsErr
    /\ UNCHANGED <<stmtKind, seq, sink, sentEarlier, sendCalls>>
    /\ UNCHANGED <<rsVars, selRetryVars, cpVars, streamVars>>

\* err and rows of ExecuteStatement below the type switch.
DispatchErr == IF stmtKind \in RetryKinds THEN rsErr ELSE hErr
DispatchRows ==
    IF stmtKind \in RowsKinds THEN rsRows
    ELSE IF stmtKind \in RowsHandlerKinds THEN hRows
    ELSE NoRows

\* Kinds whose branch appends query.ReadOnlyWarning to messages when
\* ctx.ReadOnly is set, before it calls the handler.
ReadOnlyKinds == {"AlterRetentionPolicy", "AlterShardKey", "CreateDatabase",
                  "CreateMeasurement", "CreateRetentionPolicy",
                  "CreateContinuousQuery", "DropContinuousQuery", "CreateUser",
                  "DropDatabase", "DropMeasurement", "DropRetentionPolicy",
                  "DropSubscription", "DropUser", "Grant", "GrantAdmin",
                  "Revoke", "RevokeAdmin", "SetPasswordUser", "CreateDownSample",
                  "DropDownSample", "ShowDownSample", "CreateStream"}

\* messages of ExecuteStatement below the type switch.
DispatchMessages ==
    IF ctxReadOnly /\ stmtKind \in ReadOnlyKinds THEN <<"ReadOnlyWarning">> ELSE <<>>

\* The Result the dispatcher sends.
DispatchResult(rows, messages, s) ==
    [series |-> rows, partial |-> FALSE, seq |-> s, messages |-> messages]

\* Whether ExecuteStatement returns err below the type switch.
NeverReturnsErr(err) == FALSE

ReturnsErr(err) == err # ErrNil

\* The dispatcher below the type switch: the error is returned as it is,
\* otherwise one Result is sent at seq.
DispatchSend ==
    /\ DispatchFrame
    /\ pc \in {"rsReturned", "handlerReturned"}
    /\ stmtKind \notin ReturnErrKinds
    /\ pc' = "returned"
    /\ IF ReturnsErr(DispatchErr)
       THEN /\ ret' = DispatchErr
            /\ UNCHANGED <<sink, sendCalls>>
       ELSE \E okSend \in BOOLEAN :
              /\ sendCalls' = sendCalls + 1
              /\ sink' = IF okSend
                         THEN Append(sink, DispatchResult(DispatchRows,
                                                          DispatchMessages, seq))
                         ELSE sink
              /\ ret' = IF okSend THEN ErrNil ELSE ErrSend
    /\ UNCHANGED <<stmtKind, seq, sentEarlier>>
    /\ UNCHANGED <<rsVars, selRetryVars, cpVars, streamVars>>

\* ------------------------------------------ retryExecuteSelectStatement
\* Values of the locals a new executeSelectStatement call starts with.
FreshStream ==
    /\ emitted' = FALSE
    /\ closed' = FALSE
    /\ reachedWait' = FALSE
    /\ aborted' = FALSE
    /\ prodPc' = "idle"
    /\ prodSent' = 0
    /\ rcPending' = <<>>
    /\ rcClosed' = FALSE
    /\ finClosed' = FALSE
    /\ ec' = <<>>
    /\ execRet' = "none"
    /\ drainPc' = "off"
    /\ drained' = 0

\* The i++ of the loop of retryExecuteSelectStatement.
SelectSameIndex(i) == i

SelectNextIndex(i) == i + 1

\* retrySelectInterval * (1 << i), in units of retrySelectInterval.
SelectBackoffLinear(i) == i + 1

SelectBackoff(i) == 2 ^ i

\* The loop head of retryExecuteSelectStatement: while i is below
\* maxRetrySelectCount executeSelectStatement is called (newRowChanProxy,
\* then retryCreatePipelineExecutor), otherwise err is returned.
SelRetryLoop ==
    /\ DispatchFrame
    /\ pc = "selRetry"
    /\ IF selI < maxRetrySelectCount
       THEN /\ pc' = "cpLoop"
            /\ cpNow' = 0
            /\ cpRetryNum' = 0
            /\ cpPlan' = FALSE
            /\ cpErr' = ErrNil
            /\ cpLast' = "none"
            /\ sentEarlier' = (sentEarlier \/ sink # <<>>)
            /\ sink' = <<>>
            /\ sendCalls' = 0
            /\ FreshStream
            /\ UNCHANGED <<ret, ctxDone>>
       ELSE /\ pc' = "returned"
            /\ ret' = selErr
            /\ UNCHANGED <<sink, sentEarlier, sendCalls, cpVars, streamVars>>
    /\ UNCHANGED <<stmtKind, seq, rsVars, selRetryVars>>

\* What retryExecuteSelectStatement does with the error of one
\* executeSelectStatement call: stop on nil and on every error outside the
\* partition-view retry class, otherwise back off and go round again.
SelRetryAfter ==
    /\ DispatchFrame
    /\ pc = "selReturned"
    /\ IF selErr = ErrNil \/ ~IsRetryErrorForPtView(selErr)
       THEN /\ pc' = "returned"
            /\ ret' = selErr
            /\ UNCHANGED <<selI, selBackoff>>
       ELSE /\ pc' = "selRetry"
            /\ selBackoff' = SelectBackoff(selI)
            /\ selI' = SelectNextIndex(selI)
            /\ UNCHANGED ret
    /\ UNCHANGED <<stmtKind, seq, sink, sentEarlier, sendCalls, selErr>>
    /\ UNCHANGED <<rsVars, cpVars, streamVars>>

\* ------------------------------------------ retryCreatePipelineExecutor
\* The errors retryCreatePipelineExecutor tries again on.
CreateRetriesOnlyRetriedClass(err) == IsRetriedError(err)

IsRetryableCreateError(err) ==
    IsRetriedError(err) \/ ErrorContains(err, "max message size")

\* The budget test of retryCreatePipelineExecutor.
CreateWithinBudget(elapsed) == elapsed < DMLTimeOut

\* What retryCreatePipelineExecutor returns for an error outside the
\* classes it retries: nil for the empty-collection condition.
EmptyCollectionKept(err) == err

EmptyCollectionToNil(err) ==
    IF ErrorContains(err, "declare empty collection") THEN ErrNil ELSE err

\* What a call of executor.Select may do: return a plan, return no plan and
\* no error, return an error, or panic with the errno.DtypeNotSupport error
\* or with any other value.
SelectOutcomes == {"plan", "noPlan", "panicDtype", "panicOther"} \cup CreateErrors

\* createPipelineExecutor when executor.Select does o: what it returns, or
\* that it panics.  A recovered panic leaves the named results at their
\* zero values.
createPipelineExecutor(o) ==
    IF o = "panicDtype"
    THEN [panic |-> TRUE, plan |-> FALSE, err |-> ErrNil]
    ELSE IF o = "panicOther"
    THEN [panic |-> FALSE, plan |-> FALSE, err |-> ErrNil]
    ELSE IF o \in CreateErrors
    THEN [panic |-> FALSE, plan |-> FALSE, err |-> o]
    ELSE [panic |-> FALSE, plan |-> (o = "plan"), err |-> ErrNil]

\* One iteration of the loop of retryCreatePipelineExecutor.  The attempt
\* (createPipelineExecutor) takes d ticks and yields a plan, no plan and no
\* error, or an error, or its panic unwinds ExecuteStatement.
CreatePipelineAttempt ==
    /\ DispatchFrame
    /\ pc = "cpLoop"
    /\ \E o \in SelectOutcomes, d \in 0..MaxAttemptTicks :
         LET elapsed == cpNow + d
             r == createPipelineExecutor(o)
         IN  /\ cpLast' = o
             /\ IF r.panic
                THEN /\ pc' = "panicked"
                     /\ cpNow' = elapsed
                     /\ UNCHANGED <<cpRetryNum, cpPlan, cpErr>>
                ELSE IF r.err = ErrNil
                THEN /\ cpPlan' = r.plan
                     /\ cpErr' = ErrNil
                     /\ cpNow' = elapsed
                     /\ pc' = "selCreated"
                     /\ UNCHANGED cpRetryNum
                ELSE IF IsRetryableCreateError(r.err)
                THEN IF CreateWithinBudget(elapsed)
                     THEN /\ cpNow' = elapsed + 1
                          /\ cpRetryNum' = cpRetryNum + 1
                          /\ UNCHANGED <<cpPlan, cpErr, pc>>
                     ELSE /\ cpPlan' = FALSE
                          /\ cpErr' = r.err
                          /\ cpNow' = elapsed
                          /\ pc' = "selCreated"
                          /\ UNCHANGED cpRetryNum
                ELSE /\ cpPlan' = FALSE
                     /\ cpErr' = EmptyCollectionToNil(r.err)
                     /\ cpNow' = elapsed
                     /\ pc' = "selCreated"
                     /\ UNCHANGED cpRetryNum
    /\ UNCHANGED <<stmtKind, seq, ret, sink, sentEarlier, sendCalls>>
    /\ UNCHANGED <<rsVars, selRetryVars, streamVars>>

\* ----------------------------------------------- executeSelectStatement
\* executeSelectStatement after retryCreatePipelineExecutor returned: an
\* error closes the proxy and is returned; no plan closes the proxy and
\* sends one empty Result; otherwise the producer goroutine is started and
\* the receive loop entered.  The locals of retryCreatePipelineExecutor are
\* gone by then.
SelStart ==
    /\ DispatchFrame
    /\ pc = "selCreated"
    /\ LET emptyColl == cpErr = "errEmptyColl"
           err  == IF emptyColl THEN ErrNil ELSE cpErr
           plan == IF emptyColl THEN FALSE ELSE cpPlan
       IN  IF err # ErrNil
           THEN /\ finClosed' = TRUE
                /\ rcClosed' = TRUE
                /\ selErr' = err
                /\ pc' = "selReturned"
                /\ UNCHANGED <<sink, sendCalls, prodPc>>
           ELSE IF ~plan
           THEN \E okSend \in BOOLEAN :
                  /\ finClosed' = TRUE
                  /\ rcClosed' = TRUE
                  /\ sendCalls' = sendCalls + 1
                  /\ sink' = IF okSend THEN Append(sink, EmptyResult(seq)) ELSE sink
                  /\ selErr' = IF okSend THEN ErrNil ELSE ErrSend
                  /\ pc' = "selReturned"
                  /\ UNCHANGED prodPc
           ELSE /\ prodPc' = "exec"
                /\ pc' = "selLoop"
                /\ UNCHANGED <<sink, sendCalls, selErr, finClosed, rcClosed>>
    /\ cpNow' = 0
    /\ cpRetryNum' = 0
    /\ UNCHANGED <<stmtKind, seq, ret, sentEarlier, selI, selBackoff>>
    /\ UNCHANGED <<emitted, closed, reachedWait, ctxDone, aborted, prodSent,
                   rcPending, ec, drainPc, drained, execRet>>
    /\ UNCHANGED <<rsVars, cpPlan, cpErr, cpLast>>

\* The Result the receive loop builds from a batch and sends at seq s.
BatchResultAtZero(batch, s) == Result(batch.rows, batch.partial, 0)

BatchResult(batch, s) == Result(batch.rows, batch.partial, s)

\* The receive loop takes a batch from proxy.rc (which lets the blocked
\* producer go on) and sends it to the sink; a failed Send aborts the plan
\* and returns the Send's error.
SelRecvBatch ==
    /\ DispatchFrame
    /\ pc = "selLoop"
    /\ rcPending # <<>>
    /\ rcPending' = <<>>
    /\ prodPc' = "exec"
    /\ sendCalls' = sendCalls + 1
    /\ \E okSend \in BOOLEAN :
         IF okSend
         THEN /\ sink' = Append(sink, BatchResult(rcPending[1], seq))
              /\ emitted' = TRUE
              /\ UNCHANGED <<pc, selErr, aborted>>
         ELSE /\ aborted' = TRUE
              /\ selErr' = ErrSend
              /\ pc' = "selReturned"
              /\ UNCHANGED <<sink, emitted>>
    /\ UNCHANGED <<stmtKind, seq, ret, sentEarlier, selI, selBackoff>>
    /\ UNCHANGED <<closed, reachedWait, ctxDone, prodSent, rcClosed, finClosed,
                   ec, drainPc, drained, execRet>>
    /\ UNCHANGED <<rsVars, cpVars>>

\* The receive loop finds proxy.rc closed and leaves the loop for wg.Wait().
SelRecvClosed ==
    /\ DispatchFrame
    /\ pc = "selLoop"
    /\ rcClosed
    /\ closed' = TRUE
    /\ reachedWait' = TRUE
    /\ pc' = "selWait"
    /\ UNCHANGED <<stmtKind, seq, ret, sink, sentEarlier, sendCalls>>
    /\ UNCHANGED <<emitted, ctxDone, aborted, prodPc, prodSent, rcPending,
                   rcClosed, finClosed, ec, drainPc, drained, execRet>>
    /\ UNCHANGED <<rsVars, selRetryVars, cpVars>>

\* Where the cancellation branch of the receive loop goes next.
CancelFallsThroughToWait == "selWait"

CancelTarget == "selReturned"

\* Whether the cancellation branch starts proxy.wait().
CancelLeavesDrainerOff == "off"

CancelDrainer == "running"

\* The receive loop finds ctx.Done() closed: Abort, go proxy.wait(), and
\* ctx.Err() is returned.
SelCancel ==
    /\ DispatchFrame
    /\ pc = "selLoop"
    /\ ctxDone
    /\ aborted' = TRUE
    /\ drainPc' = CancelDrainer
    /\ selErr' = ErrCtx
    /\ pc' = CancelTarget
    /\ reachedWait' = (CancelTarget = "selWait")
    /\ UNCHANGED <<stmtKind, seq, ret, sink, sentEarlier, sendCalls, selI, selBackoff>>
    /\ UNCHANGED <<emitted, closed, ctxDone, prodPc, prodSent, rcPending,
                   rcClosed, finClosed, ec, drained, execRet>>
    /\ UNCHANGED <<rsVars, cpVars>>

\* Whether the empty Result is owed after a clean end of the plan.
OwesEmptyAlways(wasEmitted) == FALSE

OwesEmptyResult(wasEmitted) == ~wasEmitted

\* The test on the completion value read from ec.
ExecErrorIgnored(e) == FALSE

ExecErrorIsTerminal(e) == e # ErrNil

\* After the loop: wg.Wait() returns once the producer goroutine is done,
\* the completion value is read from ec; an error is returned, otherwise
\* one empty Result is sent unless a batch was emitted.
SelWait ==
    /\ DispatchFrame
    /\ pc = "selWait"
    /\ prodPc = "done"
    /\ ec' = Tail(ec)
    /\ pc' = "selReturned"
    /\ IF ExecErrorIsTerminal(Head(ec))
       THEN /\ selErr' = Head(ec)
            /\ UNCHANGED <<sink, sendCalls>>
       ELSE IF OwesEmptyResult(emitted)
       THEN \E okSend \in BOOLEAN :
              /\ sendCalls' = sendCalls + 1
              /\ sink' = IF okSend THEN Append(sink, EmptyResult(seq)) ELSE sink
              /\ selErr' = IF okSend THEN ErrNil ELSE ErrSend
       ELSE /\ selErr' = ErrNil
            /\ UNCHANGED <<sink, sendCalls>>
    /\ UNCHANGED <<stmtKind, seq, ret, sentEarlier, selI, selBackoff>>
    /\ UNCHANGED <<emitted, closed, reachedWait, ctxDone, aborted, prodPc,
                   prodSent, rcPending, rcClosed, finClosed, execRet, drainPc,
                   drained>>
    /\ UNCHANGED <<rsVars, cpVars>>

\* The context is cancelled (by the client, at any time during a SELECT).
CtxCancel ==
    /\ DispatchFrame
    /\ stmtKind = "Select"
    /\ pc \in {"selRetry", "cpLoop", "selCreated", "selLoop", "selWait"}
    /\ ~ctxDone
    /\ ctxDone' = TRUE
    /\ UNCHANGED <<execVars, rsVars, selRetryVars, cpVars>>
    /\ UNCHANGED <<emitted, closed, reachedWait, aborted, prodPc, prodSent,
                   rcPending, rcClosed, finClosed, ec, drainPc, drained, execRet>>

\* ------------------------------------------------ the producer goroutine
\* The plan offers its next batch on the unbuffered proxy.rc and blocks
\* until somebody receives it.
ProdEmit ==
    /\ DispatchFrame
    /\ prodPc = "exec"
    /\ prodSent < MaxBatches
    /\ \E p \in BOOLEAN :
         rcPending' = <<[rows |-> prodSent + 1, partial |-> p]>>
    /\ prodSent' = prodSent + 1
    /\ prodPc' = "sending"
    /\ UNCHANGED <<execVars, rsVars, selRetryVars, cpVars>>
    /\ UNCHANGED <<emitted, closed, reachedWait, ctxDone, aborted, rcClosed,
                   finClosed, ec, drainPc, drained, execRet>>

\* ExecuteExecutor returns; its result goes into ec, and ec is closed.
ProdExecReturn ==
    /\ DispatchFrame
    /\ prodPc = "exec"
    /\ \E e \in ExecErrors \cup {ErrNil} :
         /\ ec' = Append(ec, e)
         /\ execRet' = e
    /\ prodPc' = "closeFinished"
    /\ UNCHANGED <<execVars, rsVars, selRetryVars, cpVars>>
    /\ UNCHANGED <<emitted, closed, reachedWait, ctxDone, aborted, prodSent,
                   rcPending, rcClosed, finClosed, drainPc, drained>>

\* rowChanProxy.close, first half: close(p.finished).
ProdCloseFinished ==
    /\ DispatchFrame
    /\ prodPc = "closeFinished"
    /\ finClosed' = TRUE
    /\ prodPc' = "closeRc"
    /\ UNCHANGED <<execVars, rsVars, selRetryVars, cpVars>>
    /\ UNCHANGED <<emitted, closed, reachedWait, ctxDone, aborted, prodSent,
                   rcPending, rcClosed, ec, drainPc, drained, execRet>>

\* rowChanProxy.close, second half: close(p.rc); then the deferred
\* wg.Done() ends the goroutine.
ProdCloseRc ==
    /\ DispatchFrame
    /\ prodPc = "closeRc"
    /\ rcClosed' = TRUE
    /\ prodPc' = "done"
    /\ UNCHANGED <<execVars, rsVars, selRetryVars, cpVars>>
    /\ UNCHANGED <<emitted, closed, reachedWait, ctxDone, aborted, prodSent,
                   rcPending, finClosed, ec, drainPc, drained, execRet>>

\* ------------------------------------------------------ rowChanProxy.wait
\* proxy.wait() receives (and drops) a batch from proxy.rc.  A receive from
\* the closed proxy.rc changes nothing and is not a step of its own.
DrainRecv ==
    /\ DispatchFrame
    /\ drainPc = "running"
    /\ rcPending # <<>>
    /\ prodPc' = "exec"
    /\ rcPending' = <<>>
    /\ drained' = drained + 1
    /\ UNCHANGED <<execVars, rsVars, selRetryVars, cpVars>>
    /\ UNCHANGED <<emitted, closed, reachedWait, ctxDone, aborted, prodSent,
                   rcClosed, finClosed, ec, drainPc, execRet>>

\* proxy.wait() finds proxy.finished closed and returns.
DrainReturn ==
    /\ DispatchFrame
    /\ drainPc = "running"
    /\ finClosed
    /\ drainPc' = "done"
    /\ UNCHANGED <<execVars, rsVars, selRetryVars, cpVars>>
    /\ UNCHANGED <<emitted, closed, reachedWait, ctxDone, aborted, prodPc, prodSent,
                   rcPending, rcClosed, finClosed, ec, drained, execRet>>

\* ------------------------------------------------------------ the system
Init ==
    /\ stmtKind \in StmtKinds
    /\ seq \in SeqNums
    /\ pc = "dispatch"
    /\ ret = ErrNil
    /\ sink = <<>>
    /\ sentEarlier = FALSE
    /\ sendCalls = 0
    /\ stmtCondition = FALSE
    /\ stmtHost = FALSE
    /\ stmtAnalyze = FALSE
    /\ ctxReadOnly \in (IF stmtKind = "Select" THEN {FALSE} ELSE BOOLEAN)
    /\ hErr = ErrNil
    /\ hRows = NoRows
    /\ called = {}
    /\ rsNow = 0
    /\ rsRetryNum = 0
    /\ rsErr = ErrNil
    /\ rsRows = NoRows
    /\ rsLog = <<>>
    /\ rsSleeps = 0
    /\ selI = 0
    /\ selErr = ErrNil
    /\ selBackoff = 0
    /\ cpNow = 0
    /\ cpRetryNum = 0
    /\ cpPlan = FALSE
    /\ cpErr = ErrNil
    /\ cpLast = "none"
    /\ emitted = FALSE
    /\ closed = FALSE
    /\ reachedWait = FALSE
    /\ ctxDone = FALSE
    /\ aborted = FALSE
    /\ prodPc = "idle"
    /\ prodSent = 0
    /\ rcPending = <<>>
    /\ rcClosed = FALSE
    /\ finClosed = FALSE
    /\ ec = <<>>
    /\ execRet = "none"
    /\ drainPc = "off"
    /\ drained = 0
    /\ MergeIdle
    /\ CardIdle
    /\ QueryIdle
    /\ KillIdle
    /\ LimitIdle
    /\ KeysIdle
    /\ StatIdle

\* The steps of the goroutine that called ExecuteStatement.
CallerStep ==
    \/ ExecuteStatement
    \/ RetryStmtIterate
    \/ DispatchSend
    \/ SelRetryLoop
    \/ SelRetryAfter
    \/ CreatePipelineAttempt
    \/ SelStart
    \/ SelRecvBatch
    \/ SelRecvClosed
    \/ SelCancel
    \/ SelWait

\* The steps the producer goroutine takes whatever the plan computes.
ProducerStep ==
    \/ ProdExecReturn
    \/ ProdCloseFinished
    \/ ProdCloseRc

\* The steps of proxy.wait().
DrainerStep ==
    \/ DrainRecv
    \/ DrainReturn

Next ==
    \/ CallerStep
    \/ ProducerStep
    \/ DrainerStep
    \/ ProdEmit
    \/ CtxCancel

Spec == Init /\ [][Next]_vars

\* Every goroutine that can take a step eventually takes one; the plan is
\* not obliged to emit another batch, nor the client to cancel.
FairSpec ==
    /\ Spec
    /\ WF_vars(CallerStep)
    /\ WF_vars(ProducerStep)
    /\ WF_vars(DrainerStep)

\* ------------------------------------------- the dispatcher, SELECT apart
\* A call of ExecuteStatement with a statement of any kind but SELECT.
DispatchInit ==
    /\ stmtKind \in NonSelectKinds
    /\ seq \in SeqNums
    /\ stmtCondition \in (IF stmtKind \in ConditionKinds THEN BOOLEAN ELSE {FALSE})
    /\ stmtHost \in (IF stmtKind = "KillQuery" THEN BOOLEAN ELSE {FALSE})
    /\ stmtAnalyze \in (IF stmtKind = "Explain" THEN BOOLEAN ELSE {FALSE})
    /\ ctxReadOnly \in BOOLEAN
    /\ pc = "dispatch"
    /\ ret = ErrNil
    /\ sink = <<>>
    /\ sentEarlier = FALSE
    /\ sendCalls = 0
    /\ hErr = ErrNil
    /\ hRows = NoRows
    /\ called = {}
    /\ rsNow = 0
    /\ rsRetryNum = 0
    /\ rsErr = ErrNil
    /\ rsRows = NoRows
    /\ rsLog = <<>>
    /\ rsSleeps = 0
    /\ selI = 0
    /\ selErr = ErrNil
    /\ selBackoff = 0
    /\ cpNow = 0
    /\ cpRetryNum = 0
    /\ cpPlan = FALSE
    /\ cpErr = ErrNil
    /\ cpLast = "none"
    /\ emitted = FALSE
    /\ closed = FALSE
    /\ reachedWait = FALSE
    /\ ctxDone = FALSE
    /\ aborted = FALSE
    /\ prodPc = "idle"
    /\ prodSent = 0
    /\ rcPending = <<>>
    /\ rcClosed = FALSE
    /\ finClosed = FALSE
    /\ ec = <<>>
    /\ execRet = "none"
    /\ drainPc = "off"
    /\ drained = 0
    /\ MergeIdle
    /\ CardIdle
    /\ QueryIdle
    /\ KillIdle
    /\ LimitIdle
    /\ KeysIdle
    /\ StatIdle

DispatchNext ==
    \/ ExecuteStatement
    \/ RetryStmtIterate
    \/ HandlerSend
    \/ DispatchReturn
    \/ DispatchSend

DispatchSpec == DispatchInit /\ [][DispatchNext]_vars

\* ------------------------------------------------------ the result mergers
\* Most nodes whose replies are merged.
MaxNodes == 2

\* Byte strings and Go strings are sequences of bytes.
\* bytes.Compare, and the order of Go strings: -1, 0 or 1.
RECURSIVE BytesCompare(_, _)
BytesCompare(a, b) ==
    IF a = <<>> THEN (IF b = <<>> THEN 0 ELSE -1)
    ELSE IF b = <<>> THEN 1
    ELSE IF a[1] < b[1] THEN -1
    ELSE IF a[1] > b[1] THEN 1
    ELSE BytesCompare(Tail(a), Tail(b))

\* A comparison that looks at the lengths first.
LessByLength(a, b) ==
    Len(a) < Len(b) \/ (Len(a) = Len(b) /\ BytesCompare(a, b) < 0)

\* ByteStringSlice.Less.
ByteStringSliceLess(a, b) == BytesCompare(a, b) < 0

\* The < of Go strings, as sort.Strings uses it.
StringLess(a, b) == BytesCompare(a, b) < 0

\* TagKeysSlice.Less.
TagKeysSliceLess(a, b) == StringLess(a.Name, b.Name)

\* netstorage.TagSets.Less: keys are compared before values.
TagSetsLess(a, b) ==
    IF a.Key = b.Key THEN StringLess(a.Value, b.Value) ELSE StringLess(a.Key, b.Key)

\* coordinator.TagValuesSlice.Less.
TagValuesSliceLess(a, b) == StringLess(a.Name, b.Name)

\* The Less of the slice type that is sorted.
SortLess(order, a, b) ==
    CASE order = "ByteStringSlice" -> ByteStringSliceLess(a, b)
      [] order = "Strings" -> StringLess(a, b)
      [] order = "TagKeysSlice" -> TagKeysSliceLess(a, b)
      [] order = "TagSets" -> TagSetsLess(a, b)
      [] order = "TagValuesSlice" -> TagValuesSliceLess(a, b)

\* sort.Stable (and sort.Strings on distinct elements): element i goes
\* behind every element that is less, and behind the equal ones that stood
\* before it.
StableSort(order, s) ==
    LET rank(i) == Cardinality({j \in 1..Len(s) :
                       SortLess(order, s[j], s[i])
                           \/ (~SortLess(order, s[i], s[j]) /\ j < i)}) + 1
    IN  [k \in 1..Len(s) |-> s[CHOOSE i \in 1..Len(s) : rank(i) = k]]

SeqToSet(s) == {s[i] : i \in 1..Len(s)}

\* A Go map (or a set.Set) is walked in no particular order: Walk(S, style)
\* is one enumeration of S, its reverse, or its rotation by one.
WalkStyles == {"fwd", "rev", "rot"}
Walk(S, style) ==
    LET n == Cardinality(S)
        one == CHOOSE f \in [1..n -> S] : \A i, j \in 1..n : i # j => f[i] # f[j]
    IN  IF style = "fwd" THEN one
        ELSE IF style = "rev" THEN [i \in 1..n |-> one[n + 1 - i]]
        ELSE [i \in 1..n |-> one[(i % n) + 1]]

\* Every order in which the nodes of a per-node map may be walked.
NodeOrders(N) ==
    {f \in [1..Cardinality(N) -> N] : \A i, j \in 1..Cardinality(N) : i # j => f[i] # f[j]}

\* json.Unmarshal of a node's reply: the decoded value, or an error.
Marshal(v) == [kind |-> "json", val |-> v]
Malformed == [kind |-> "malformed"]
EmptyReply == [kind |-> "empty"]
Unmarshal(result) ==
    IF result.kind = "json" THEN [err |-> FALSE, val |-> result.val]
    ELSE [err |-> TRUE, val |-> <<>>]

\* The first loop of MergeMeasurementsNames over the nodes in the order
\* given: a reply of length 0 is skipped, one that does not decode ends the
\* merge with an error, the names of the others are appended.
RECURSIVE CollectNames(_, _, _)
CollectNames(msgs, order, clusterNames) ==
    IF order = <<>> THEN [err |-> FALSE, names |-> clusterNames]
    ELSE LET msg == msgs[Head(order)]
         IN  IF msg.kind = "empty"
             THEN CollectNames(msgs, Tail(order), clusterNames)
             ELSE IF Unmarshal(msg).err
             THEN [err |-> TRUE, names |-> <<>>]
             ELSE CollectNames(msgs, Tail(order), clusterNames \o Unmarshal(msg).val)

\* The keys of retString: the names without repetition.
UniqueNames(clusterNames) == SeqToSet(clusterNames)

\* MergeMeasurementsNames, the nodes walked in nodeOrder and retString in
\* the given style.
MergeMeasurementsNames(msgs, nodeOrder, style) ==
    LET got == CollectNames(msgs, nodeOrder, <<>>)
    IN  IF got.err THEN [err |-> TRUE, names |-> <<>>]
        ELSE [err |-> FALSE,
              names |-> StableSort("ByteStringSlice", Walk(UniqueNames(got.names), style))]

\* What MergeTagKeys and MergeTagValues store for a name that uniqueMap
\* already holds.
KeepNewSetOnly(old, new) == new

UnionOfSets(old, new) == old \cup new

\* The loop of MergeTagKeys (MergeTagValues) over one node's entries, each
\* given as its name and the list of its keys (its key/value pairs).
RECURSIVE FoldEntries(_, _)
FoldEntries(entries, uniqueMap) ==
    IF entries = <<>> THEN uniqueMap
    ELSE LET e == Head(entries)
             sset == SeqToSet(e.items)
             next == IF e.name \in DOMAIN uniqueMap
                     THEN [uniqueMap EXCEPT ![e.name] = UnionOfSets(uniqueMap[e.name], sset)]
                     ELSE [n \in DOMAIN uniqueMap \cup {e.name} |->
                              IF n = e.name THEN sset ELSE uniqueMap[n]]
         IN  FoldEntries(Tail(entries), next)

\* The loop over the nodes, in the order given.
RECURSIVE FoldNodes(_, _, _)
FoldNodes(byNode, order, uniqueMap) ==
    IF order = <<>> THEN uniqueMap
    ELSE FoldNodes(byNode, Tail(order), FoldEntries(byNode[Head(order)], uniqueMap))

EmptyMap == [n \in {} |-> {}]

\* MergeTagKeys: the nodes walked in nodeOrder, uniqueMap and each of its
\* sets walked in the given style.
MergeTagKeys(byNode, nodeOrder, style) ==
    LET entries == [n \in DOMAIN byNode |->
                      [i \in 1..Len(byNode[n]) |->
                         [name |-> byNode[n][i].Name, items |-> byNode[n][i].Keys]]]
        uniqueMap == FoldNodes(entries, nodeOrder, EmptyMap)
        names == Walk(DOMAIN uniqueMap, style)
        cluster == [i \in 1..Len(names) |->
                      [Name |-> names[i],
                       Keys |-> StableSort("Strings", Walk(uniqueMap[names[i]], style))]]
    IN  StableSort("TagKeysSlice", cluster)

\* MergeTagValues, likewise.
MergeTagValues(byNode, nodeOrder, style) ==
    LET entries == [n \in DOMAIN byNode |->
                      [i \in 1..Len(byNode[n]) |->
                         [name |-> byNode[n][i].Name, items |-> byNode[n][i].Values]]]
        uniqueMap == FoldNodes(entries, nodeOrder, EmptyMap)
        names == Walk(DOMAIN uniqueMap, style)
        cluster == [i \in 1..Len(names) |->
                      [Name |-> names[i],
                       Values |-> StableSort("TagSets", Walk(uniqueMap[names[i]], style))]]
    IN  StableSort("TagValuesSlice", cluster)

\* Names of measurements ("m", "m1", "n"), tag keys ("x", "xy", "y", "z")
\* and tag values ("1", "2"), as byte sequences.
MeasurementNames == {<<109>>, <<109, 49>>, <<110>>}
NameLists == UNION {[1..k -> MeasurementNames] : k \in 0..2}
NameReplies == {EmptyReply, Malformed} \cup {Marshal(l) : l \in NameLists}

KeyLists == {<<<<120>>, <<121>>>>, <<<<121>>, <<122>>>>, <<<<120, 121>>, <<120>>, <<120>>>>}
TagKeysEntries ==
    {[Name |-> <<109>>, Keys |-> k] : k \in KeyLists}
        \cup {[Name |-> <<110>>, Keys |-> <<<<120>>, <<121>>>>]}
TagKeysReplies == UNION {[1..k -> TagKeysEntries] : k \in 0..2}

TagSet(k, v) == [Key |-> k, Value |-> v]
ValueLists == {<<TagSet(<<120>>, <<49>>), TagSet(<<121>>, <<49>>)>>,
               <<TagSet(<<121>>, <<49>>), TagSet(<<120>>, <<50>>)>>,
               <<TagSet(<<120>>, <<50>>), TagSet(<<120>>, <<49>>), TagSet(<<120>>, <<49>>)>>}
TagValuesEntries ==
    {[Name |-> <<109>>, Values |-> v] : v \in ValueLists}
        \cup {[Name |-> <<110>>, Values |-> <<TagSet(<<120>>, <<49>>), TagSet(<<121>>, <<49>>)>>]}
TagValuesReplies == UNION {[1..k -> TagValuesEntries] : k \in 0..2}

\* The per-node arguments of a merge: one reply for each of 1..n nodes.
PerNode(Replies) == UNION {[1..n -> Replies] : n \in 1..MaxNodes}

MergeInit ==
    /\ mPc = "start"
    /\ mOut = <<>>
    /\ mAgain = <<>>
    /\ \/ mKind = "names" /\ mIn \in PerNode(NameReplies)
       \/ mKind = "tagKeys" /\ mIn \in PerNode(TagKeysReplies)
       \/ mKind = "tagValues" /\ mIn \in PerNode(TagValuesReplies)
    /\ DispatchIdle
    /\ CardIdle
    /\ QueryIdle
    /\ KillIdle
    /\ LimitIdle
    /\ KeysIdle
    /\ StatIdle

\* MergeMeasurementsNames is applied to the replies.
MergeNamesStep ==
    /\ mKind = "names"
    /\ mPc = "start"
    /\ \E order \in NodeOrders(DOMAIN mIn), style \in WalkStyles :
         mOut' = MergeMeasurementsNames(mIn, order, style)
    /\ mPc' = "merged"
    /\ UNCHANGED <<mKind, mIn, mAgain>>
    /\ MergeFrame

\* MergeMeasurementsNames is applied again, to the replies and one more:
\* the merged names, or a copy of one of the replies.
RemergeNamesStep ==
    /\ mKind = "names"
    /\ mPc = "merged"
    /\ ~mOut.err
    /\ \E extra \in {Marshal(mOut.names)} \cup SeqToSet(mIn) :
         LET more == Append(mIn, extra)
         IN  \E order \in NodeOrders(DOMAIN more), style \in WalkStyles :
               mAgain' = MergeMeasurementsNames(more, order, style)
    /\ mPc' = "remerged"
    /\ UNCHANGED <<mKind, mIn, mOut>>
    /\ MergeFrame

\* MergeTagKeys is applied to the replies.
MergeTagKeysStep ==
    /\ mKind = "tagKeys"
    /\ mPc = "start"
    /\ \E order \in NodeOrders(DOMAIN mIn), style \in WalkStyles :
         mOut' = MergeTagKeys(mIn, order, style)
    /\ mPc' = "merged"
    /\ UNCHANGED <<mKind, mIn, mAgain>>
    /\ MergeFrame

\* MergeTagValues is applied to the replies.
MergeTagValuesStep ==
    /\ mKind = "tagValues"
    /\ mPc = "start"
    /\ \E order \in NodeOrders(DOMAIN mIn), style \in WalkStyles :
         mOut' = MergeTagValues(mIn, order, style)
    /\ mPc' = "merged"
    /\ UNCHANGED <<mKind, mIn, mAgain>>
    /\ MergeFrame

MergeNext ==
    \/ MergeNamesStep
    \/ RemergeNamesStep
    \/ MergeTagKeysStep
    \/ MergeTagValuesStep

MergeSpec == MergeInit /\ [][MergeNext]_vars

\* ------------------------------------------------------ MergeAllNodeMessage
\* The statement types MergeAllNodeMessage merges, and one it does not.
MergedTypes == {"ShowMeasurementsStatement", "ShowTagKeysStatement",
                "ShowTagValuesStatement", "ShowSeriesCardinalityStatement",
                "ShowMeasurementCardinalityStatement"}
MessageTypes == MergedTypes \cup {"ShowSeriesStatement"}

\* GetStatementMessageType: the type of the first message the walk comes
\* to, "" when there is none.
GetStatementMessageType(msgs, nodeOrder) ==
    IF nodeOrder = <<>> THEN "" ELSE msgs[Head(nodeOrder)].StatementType

\* The decoding loops of MergeAllNodeMessage: every reply is decoded, the
\* first one that does not decode ends the merge with its error.
SkipUndecodable(replies) ==
    [err |-> FALSE,
     val |-> [n \in DOMAIN replies |->
                IF Unmarshal(replies[n]).err THEN <<>> ELSE Unmarshal(replies[n]).val]]

DecodeAll(replies) ==
    IF \E n \in DOMAIN replies : Unmarshal(replies[n]).err
    THEN [err |-> TRUE, val |-> <<>>]
    ELSE [err |-> FALSE, val |-> [n \in DOMAIN replies |-> Unmarshal(replies[n]).val]]

\* CalcCardinality over the nodes in the order given: the sum of the
\* counts, or an error and 0 at the first reply that does not decode.
RECURSIVE CalcCardinality(_, _, _)
CalcCardinality(replies, order, clusterCardinality) ==
    IF order = <<>> THEN [err |-> FALSE, val |-> clusterCardinality]
    ELSE LET got == Unmarshal(replies[Head(order)])
         IN  IF got.err THEN [err |-> TRUE, val |-> 0]
             ELSE CalcCardinality(replies, Tail(order), clusterCardinality + got.val)

\* MergeAllNodeMessage: an error (err) and a result (val).
MergeAllNodeMessage(msgs, nodeOrder, style) ==
    LET stmtType == GetStatementMessageType(msgs, nodeOrder)
        replies == [n \in DOMAIN msgs |-> msgs[n].Result]
    IN  IF stmtType = "ShowMeasurementsStatement"
        THEN LET got == MergeMeasurementsNames(replies, nodeOrder, style)
             IN  [err |-> got.err, val |-> got.names]
        ELSE IF stmtType = "ShowTagKeysStatement"
        THEN LET got == DecodeAll(replies)
             IN  IF got.err THEN [err |-> TRUE, val |-> <<>>]
                 ELSE [err |-> FALSE, val |-> MergeTagKeys(got.val, nodeOrder, style)]
        ELSE IF stmtType = "ShowTagValuesStatement"
        THEN LET got == DecodeAll(replies)
             IN  IF got.err THEN [err |-> TRUE, val |-> <<>>]
                 ELSE [err |-> FALSE, val |-> MergeTagValues(got.val, nodeOrder, style)]
        ELSE IF stmtType \in {"ShowSeriesCardinalityStatement",
                              "ShowMeasurementCardinalityStatement"}
        THEN CalcCardinality(replies, nodeOrder, 0)
        ELSE [err |-> TRUE, val |-> <<>>]

\* n.Result = n.Filtered, done on the message the caller passed.
resultFromFiltered(msg) == [msg EXCEPT !.Result = msg.Filtered]

\* MergeAllNodeFiltered: the messages as it leaves them, an error (err) and
\* a result (val).
MergeAllNodeFiltered(msgs, nodeOrder, style) ==
    LET other == [n \in DOMAIN msgs |-> resultFromFiltered(msgs[n])]
        stmtType == GetStatementMessageType(other, nodeOrder)
        replies == [n \in DOMAIN other |-> other[n].Result]
    IN  IF stmtType = "ShowMeasurementsStatement"
        THEN LET got == MergeMeasurementsNames(replies, nodeOrder, style)
             IN  [msgs |-> other, err |-> got.err, val |-> got.names]
        ELSE IF stmtType = "ShowTagKeysStatement"
        THEN LET got == DecodeAll(replies)
             IN  IF got.err THEN [msgs |-> other, err |-> TRUE, val |-> <<>>]
                 ELSE [msgs |-> other, err |-> FALSE,
                       val |-> MergeTagKeys(got.val, nodeOrder, style)]
        ELSE [msgs |-> other, err |-> TRUE, val |-> <<>>]

\* The raw replies a node may give to a statement of the type.
RawReplies(stmtType) ==
    {Malformed, EmptyReply} \cup
    {Marshal(v) : v \in
        IF stmtType = "ShowMeasurementsStatement"
        THEN {<<>>, <<<<109>>>>, <<<<110>>, <<109>>>>}
        ELSE IF stmtType = "ShowTagKeysStatement"
        THEN {<<>>, <<[Name |-> <<109>>, Keys |-> <<<<120>>, <<121>>>>]>>,
              <<[Name |-> <<109>>, Keys |-> <<<<121>>, <<122>>>>]>>}
        ELSE IF stmtType = "ShowTagValuesStatement"
        THEN {<<>>, <<[Name |-> <<109>>, Values |-> <<TagSet(<<120>>, <<49>>)>>]>>,
              <<[Name |-> <<109>>, Values |-> <<TagSet(<<121>>, <<49>>)>>]>>}
        ELSE {3, 5}}

\* The filtered replies a node may give along with the raw ones.
FilteredReplies(stmtType) ==
    {EmptyReply} \cup
    {Marshal(v) : v \in
        IF stmtType = "ShowMeasurementsStatement" THEN {<<<<109>>>>}
        ELSE IF stmtType = "ShowTagKeysStatement"
        THEN {<<[Name |-> <<109>>, Keys |-> <<<<120>>, <<121>>>>]>>}
        ELSE IF stmtType = "ShowTagValuesStatement"
        THEN {<<[Name |-> <<109>>, Values |-> <<TagSet(<<120>>, <<49>>)>>]>>}
        ELSE {3}}

\* One message per node, all answering a statement of the same type.
MergeAllInit ==
    /\ mPc = "start"
    /\ mOut = <<>>
    /\ mAgain = <<>>
    /\ mKind \in MessageTypes
    /\ \E n \in 0..MaxNodes :
         mIn \in [1..n -> {[StatementType |-> mKind, Result |-> r, Filtered |-> f] :
                              r \in RawReplies(mKind), f \in FilteredReplies(mKind)}]
    /\ DispatchIdle
    /\ CardIdle
    /\ QueryIdle
    /\ KillIdle
    /\ LimitIdle
    /\ KeysIdle
    /\ StatIdle

\* MergeAllNodeMessage is applied to the messages.
MergeAllStep ==
    /\ mPc = "start"
    /\ \E order \in NodeOrders(DOMAIN mIn), style \in WalkStyles :
         mOut' = MergeAllNodeMessage(mIn, order, style)
    /\ mPc' = "merged"
    /\ UNCHANGED <<mKind, mIn, mAgain>>
    /\ MergeFrame

\* MergeAllNodeFiltered is applied to the messages.
MergeAllFilteredStep ==
    /\ mPc = "start"
    /\ \E order \in NodeOrders(DOMAIN mIn), style \in WalkStyles :
         LET got == MergeAllNodeFiltered(mIn, order, style)
         IN  /\ mIn' = got.msgs
             /\ mOut' = [err |-> got.err, val |-> got.val]
    /\ mPc' = "filtered"
    /\ UNCHANGED <<mKind, mAgain>>
    /\ MergeFrame

\* MergeAllNodeMessage is applied to the messages a merge was applied to.
MergeAllAgainStep ==
    /\ mPc \in {"merged", "filtered"}
    /\ \E order \in NodeOrders(DOMAIN mIn), style \in WalkStyles :
         mAgain' = [from |-> mPc, out |-> MergeAllNodeMessage(mIn, order, style)]
    /\ mPc' = "remerged"
    /\ UNCHANGED <<mKind, mIn, mOut>>
    /\ MergeFrame

MergeAllNext ==
    \/ MergeAllStep
    \/ MergeAllFilteredStep
    \/ MergeAllAgainStep

MergeAllSpec == MergeAllInit /\ [][MergeAllNext]_vars

\* ------------------------------------------- showSeriesExactCardinality

\* What SeriesExactCardinality may answer for a node: an error, or a count
\* for some of the measurements "m" and "n". The counts stay far below 2^64,
\* where the addition of uint64 is exact.
CardNames == {<<109>>, <<110>>}
CardCounts == {3, 5}
CardReplies == UNION {[S -> CardCounts] : S \in SUBSET CardNames}
NoReply == [err |-> "none", tmp |-> <<>>]

\* A count that overwrites the one held.
OverwriteCount(old, n) == n

\* ret[name] += n.
AddCount(old, n) == old + n

\* The loop over tmp: a name that ret does not hold is stored, the count of
\* one it holds is added to.
AddCounts(held, tmp) ==
    [name \in DOMAIN held \cup DOMAIN tmp |->
        IF name \notin DOMAIN tmp THEN held[name]
        ELSE IF name \notin DOMAIN held THEN tmp[name]
        ELSE AddCount(held[name], tmp[name])]

\* EachDBNodes has run the callback for every node and waited for them all.
EachDBNodesDone == \A n \in DOMAIN cbPc : cbPc[n] = "done"

\* The errors EachDBNodes may return: one that a callback returned, or nil
\* when none returned one.
EachDBNodesErrs ==
    IF \E n \in DOMAIN cbRet : cbRet[n] # "nil"
    THEN {cbRet[n] : n \in {m \in DOMAIN cbRet : cbRet[m] # "nil"}}
    ELSE {"nil"}

CardInit ==
    /\ cardPc = "fanout"
    /\ \E n \in 1..MaxNodes :
         /\ cbPc = [i \in 1..n |-> "start"]
         /\ cbTmp = [i \in 1..n |-> NoReply]
         /\ cbRet = [i \in 1..n |-> "nil"]
    /\ hasErr = FALSE
    /\ cardRet = <<>>
    /\ cardRows = <<>>
    /\ cardErr = "nil"
    /\ DispatchIdle
    /\ MergeIdle
    /\ QueryIdle
    /\ KillIdle
    /\ LimitIdle
    /\ KeysIdle
    /\ StatIdle

\* The callback of node n reads *hasErr without holding the lock: while a
\* peer has set it, the read may still see it unset.
CbCheckFlag(n) ==
    /\ cbPc[n] = "start"
    /\ \E seen \in {hasErr, FALSE} :
         cbPc' = [cbPc EXCEPT ![n] = IF seen THEN "done" ELSE "rpc"]
    /\ UNCHANGED <<cardPc, cbTmp, cbRet, hasErr, cardRet, cardRows, cardErr>>
    /\ CardFrame

\* SeriesExactCardinality answers node n.
CbRpc(n) ==
    /\ cbPc[n] = "rpc"
    /\ \E reply \in {[err |-> "errRpc", tmp |-> <<>>]}
                      \cup {[err |-> "nil", tmp |-> t] : t \in CardReplies} :
         cbTmp' = [cbTmp EXCEPT ![n] = reply]
    /\ cbPc' = [cbPc EXCEPT ![n] = "lock"]
    /\ UNCHANGED <<cardPc, cbRet, hasErr, cardRet, cardRows, cardErr>>
    /\ CardFrame

\* A failure that leaves the accumulator as it is.
KeepOnError(held) == held

\* ret = make(map[string]uint64) after a failed RPC.
ResetOnError(held) == <<>>

\* The callback of node n from lock.Lock() to its return.
CbCritical(n) ==
    /\ cbPc[n] = "lock"
    /\ LET err == cbTmp[n].err
           flag == hasErr \/ err # "nil"
       IN  /\ hasErr' = flag
           /\ cbRet' = [cbRet EXCEPT ![n] = IF flag THEN err ELSE "nil"]
           /\ cardRet' = IF err # "nil" THEN ResetOnError(cardRet)
                         ELSE IF flag THEN cardRet
                         ELSE AddCounts(cardRet, cbTmp[n].tmp)
    /\ cbPc' = [cbPc EXCEPT ![n] = "done"]
    /\ UNCHANGED <<cardPc, cbTmp, cardRows, cardErr>>
    /\ CardFrame

\* EachDBNodes returns; the rows are built from ret, walked as a Go map.
CardReturn ==
    /\ cardPc = "fanout"
    /\ EachDBNodesDone
    /\ \E err \in EachDBNodesErrs, style \in WalkStyles :
         /\ cardErr' = err
         /\ cardRows' = IF err # "nil" THEN <<>>
                        ELSE LET names == Walk(DOMAIN cardRet, style)
                             IN  [i \in 1..Len(names) |->
                                    [Name |-> names[i], count |-> cardRet[names[i]]]]
    /\ cardPc' = "returned"
    /\ UNCHANGED <<cbPc, cbTmp, cbRet, hasErr, cardRet>>
    /\ CardFrame

CardNext ==
    \/ \E n \in DOMAIN cbPc : CbCheckFlag(n)
    \/ \E n \in DOMAIN cbPc : CbRpc(n)
    \/ \E n \in DOMAIN cbPc : CbCritical(n)
    \/ CardReturn

CardSpec == CardInit /\ [][CardNext]_vars

\* ------------------------------------------------ the running-query view

MaxHosts == 3

Running == "running"
Killed == "killed"

\* updateBeginTime that takes every begin time it is given.
takeBeginTime(q, newBegin) == [q EXCEPT !.beginTime = newBegin]

updateBeginTime(q, newBegin) ==
    IF newBegin < q.beginTime THEN [q EXCEPT !.beginTime = newBegin] ELSE q

\* updateHosts that counts every host as running.
addRunningHost(q, newHost, newRunState) ==
    [q EXCEPT !.runningHosts = @ \cup {newHost}]

updateHosts(q, newHost, newRunState) ==
    IF newRunState = Running THEN [q EXCEPT !.runningHosts = @ \cup {newHost}]
    ELSE IF newRunState = Killed THEN [q EXCEPT !.killedHosts = @ \cup {newHost}]
    ELSE q

\* A run state that looks at the running hosts only.
runStateOfRunningHosts(q) == IF q.runningHosts = {} THEN "allKilled" ELSE "allRunning"

getCombinedRunState(q) ==
    IF q.runningHosts = {} THEN "allKilled"
    ELSE IF q.killedHosts # {} THEN "partiallyKilled"
    ELSE "allRunning"

\* The body of the loop of combineQueryExeInfos for one entry.
CombineInfo(dstMap, info, host) ==
    LET known == info.QueryID \in DOMAIN dstMap
        newCmbInfo == updateHosts([qid |-> info.QueryID, stmt |-> info.Stmt,
                                   database |-> info.Database,
                                   beginTime |-> info.BeginTime,
                                   runningHosts |-> {}, killedHosts |-> {}],
                                  host, info.RunState)
        stored == [id \in DOMAIN dstMap \cup {info.QueryID} |->
                     IF id = info.QueryID THEN newCmbInfo ELSE dstMap[id]]
    IN  IF known /\ dstMap[info.QueryID].stmt = info.Stmt
        THEN [dstMap EXCEPT ![info.QueryID] =
                 updateHosts(updateBeginTime(@, info.BeginTime), host, info.RunState)]
        ELSE IF known /\ info.BeginTime <= dstMap[info.QueryID].beginTime
        THEN dstMap
        ELSE stored

RECURSIVE combineQueryExeInfos(_, _, _)
combineQueryExeInfos(dstMap, exeInfosOnStore, host) ==
    IF exeInfosOnStore = <<>> THEN dstMap
    ELSE combineQueryExeInfos(CombineInfo(dstMap, Head(exeInfosOnStore), host),
                              Tail(exeInfosOnStore), host)

\* An order that puts the later begin time first.
laterBeginFirst(a, b) == a.beginTime > b.beginTime

\* combinedInfos.Less.
combinedInfosLess(a, b) == a.beginTime < b.beginTime

\* toOutputRow without the duration, which is read off the clock.
toOutputRow(q, isKilledPart) ==
    [qid |-> q.qid, query |-> q.stmt, database |-> q.database,
     status |-> IF isKilledPart THEN "killed" ELSE "running",
     host |-> IF isKilledPart THEN q.killedHosts ELSE q.runningHosts]

\* The rows of the queries in the order given.
RECURSIVE OutputRows(_)
OutputRows(sortedResult) ==
    IF sortedResult = <<>> THEN <<>>
    ELSE LET cmbInfo == Head(sortedResult)
             state == getCombinedRunState(cmbInfo)
             rows == IF state = "allKilled" THEN <<>>
                     ELSE IF state = "partiallyKilled"
                     THEN <<toOutputRow(cmbInfo, TRUE), toOutputRow(cmbInfo, FALSE)>>
                     ELSE <<toOutputRow(cmbInfo, FALSE)>>
         IN  rows \o OutputRows(Tail(sortedResult))

\* The orders sort.Sort may leave the combined entries in: it is not stable,
\* so entries that begin at the same time come in any order.
SortedResults(values) ==
    {f \in [1..Cardinality(values) -> values] :
        /\ \A i, j \in 1..Cardinality(values) : i # j => f[i] # f[j]
        /\ \A i, j \in 1..Cardinality(values) : i < j => ~combinedInfosLess(f[j], f[i])}

\* The entries a store node may report: query 1 with either of two texts,
\* query 2, each begun at time 1 or 2 and running or killed there; a node
\* may report two queries, or one query twice, as running and as killed.
QueryExeInfo(id, stmt, begin, state) ==
    [QueryID |-> id, Stmt |-> stmt, Database |-> "db", BeginTime |-> begin, RunState |-> state]
ExeInfos ==
    {QueryExeInfo(1, st, t, rs) : st \in {"select A", "select B"}, t \in 1..2, rs \in {Running, Killed}}
        \cup {QueryExeInfo(2, "select A", t, rs) : t \in 1..2, rs \in {Running, Killed}}
ExeInfoLists ==
    {<<>>} \cup {<<i>> : i \in ExeInfos}
        \cup {<<QueryExeInfo(1, "select A", t, Running), QueryExeInfo(2, "select A", u, Running)>> :
                t \in 1..2, u \in 1..2}
        \cup {<<QueryExeInfo(1, "select A", 1, Running), QueryExeInfo(1, "select A", 1, Killed)>>}

\* A slot of infosOnAllStore, before and after the node's goroutine stored
\* its entries.
\* node and failed are history: the node the goroutine asked, and whether
\* GetQueriesOnNode returned an error.
Pending == [stored |-> FALSE, infos |-> <<>>, node |-> 0, failed |-> FALSE]
Stored(exeInfos, nodeID, fetchFailed) ==
    [stored |-> TRUE, infos |-> exeInfos, node |-> nodeID, failed |-> fetchFailed]

\* A goroutine that asks the first node whatever its index.
FirstNode(index) == 1

\* The node the goroutine started for nodes[index] asks: it is handed the
\* index and node.ID of its own iteration as arguments.
NodeOfIndex(index) == index

\* nodes[i].Host.
Host(i) == i

QueryInit ==
    /\ qPc = "start"
    /\ \E n \in 1..MaxHosts : qInfos = [i \in 1..n |-> Pending]
    /\ qNode = 0
    /\ resMap = <<>>
    /\ qRows = <<>>
    /\ DispatchIdle
    /\ MergeIdle
    /\ CardIdle
    /\ KillIdle
    /\ LimitIdle
    /\ KeysIdle
    /\ StatIdle

\* MetaClient.DataNodes(): its error is returned, otherwise one goroutine is
\* started for each node.
ShowQueriesStart ==
    /\ qPc = "start"
    /\ \E failed \in BOOLEAN : qPc' = IF failed THEN "failed" ELSE "gather"
    /\ UNCHANGED <<qInfos, qNode, resMap, qRows>>
    /\ QueryFrame

\* The goroutine of node i: getQueryExeInfoOnNode, which turns an error of
\* GetQueriesOnNode into no entries, and the store under mu.
GetQueryExeInfoOnNode(i) ==
    /\ qPc = "gather"
    /\ ~qInfos[i].stored
    /\ \E failed \in BOOLEAN, exeInfos \in ExeInfoLists :
         qInfos' = [qInfos EXCEPT ![i] = Stored(IF failed THEN <<>> ELSE exeInfos,
                                                NodeOfIndex(i), failed)]
    /\ UNCHANGED <<qPc, qNode, resMap, qRows>>
    /\ QueryFrame

\* wg.Wait() returns.
ShowQueriesWait ==
    /\ qPc = "gather"
    /\ \A i \in DOMAIN qInfos : qInfos[i].stored
    /\ qPc' = "combine"
    /\ UNCHANGED <<qInfos, qNode, resMap, qRows>>
    /\ QueryFrame

\* One call of combineQueryExeInfos, for the next node.
CombineNode ==
    /\ qPc = "combine"
    /\ qNode < Len(qInfos)
    /\ resMap' = combineQueryExeInfos(resMap, qInfos[qNode + 1].infos, Host(qNode + 1))
    /\ qNode' = qNode + 1
    /\ UNCHANGED <<qPc, qInfos, qRows>>
    /\ QueryFrame

\* The entries are sorted and the rows are built and returned.
ShowQueriesReturn ==
    /\ qPc = "combine"
    /\ qNode = Len(qInfos)
    /\ \E sortedResult \in SortedResults({resMap[id] : id \in DOMAIN resMap}) :
         qRows' = OutputRows(sortedResult)
    /\ qPc' = "returned"
    /\ UNCHANGED <<qInfos, qNode, resMap>>
    /\ QueryFrame

QueryNext ==
    \/ ShowQueriesStart
    \/ \E i \in DOMAIN qInfos : GetQueryExeInfoOnNode(i)
    \/ ShowQueriesWait
    \/ CombineNode
    \/ ShowQueriesReturn

QuerySpec == QueryInit /\ [][QueryNext]_vars

\* ------------------------------------------------------ executeKillQuery

MaxKillNodes == 3

\* What KillQueryOnNode may answer: nil, the query-not-found error, or
\* another error.
KillReplies == {"nil", "errQueryNotFound", "errKill"}

\* errors.As(err, &wrapErr) && errno.Equal(wrapErr, errno.ErrQueryNotFound).
IsQueryNotFound(err) == err = "errQueryNotFound"

KillInit ==
    /\ kPc = "start"
    /\ kHost \in BOOLEAN
    /\ \E n \in 0..MaxKillNodes :
         /\ kGoPc = [i \in 1..n |-> "idle"]
         /\ kReply = [i \in 1..n |-> "none"]
         /\ kTmp = [i \in 1..n |-> 0]
    /\ kErr = "nil"
    /\ notFoundCount = 0
    /\ kRet = "nil"
    /\ DispatchIdle
    /\ MergeIdle
    /\ CardIdle
    /\ QueryIdle
    /\ LimitIdle
    /\ KeysIdle
    /\ StatIdle

\* The start of executeKillQuery: a statement that names a host is
\* unsupported, an error of MetaClient.DataNodes() is returned, otherwise
\* one goroutine is started for each node.
KillStart ==
    /\ kPc = "start"
    /\ IF kHost
       THEN /\ kRet' = "ErrUnsupportCommand"
            /\ kPc' = "returned"
            /\ UNCHANGED <<kGoPc, kErr>>
       ELSE \E failed \in BOOLEAN :
              IF failed
              THEN /\ kRet' = "errDataNodes"
                   /\ kErr' = "errDataNodes"
                   /\ kPc' = "returned"
                   /\ UNCHANGED kGoPc
              ELSE /\ kPc' = "wait"
                   /\ kGoPc' = [i \in DOMAIN kGoPc |-> "call"]
                   /\ UNCHANGED <<kRet, kErr>>
    /\ UNCHANGED <<kHost, kReply, kTmp, notFoundCount>>
    /\ KillFrame

\* The goroutine of node n stores the answer of KillQueryOnNode in err, which
\* all the goroutines share and none of them locks.
KillCall(n) ==
    /\ kGoPc[n] = "call"
    /\ \E reply \in KillReplies :
         /\ kReply' = [kReply EXCEPT ![n] = reply]
         /\ kErr' = reply
    /\ kGoPc' = [kGoPc EXCEPT ![n] = "test"]
    /\ UNCHANGED <<kPc, kHost, kTmp, notFoundCount, kRet>>
    /\ KillFrame

\* The goroutine of node n tests err, as it stands by then.
KillTest(n) ==
    /\ kGoPc[n] = "test"
    /\ kGoPc' = [kGoPc EXCEPT ![n] =
                    IF kErr # "nil" /\ IsQueryNotFound(kErr) THEN "load" ELSE "done"]
    /\ UNCHANGED <<kPc, kHost, kReply, kTmp, kErr, notFoundCount, kRet>>
    /\ KillFrame

\* notFoundCount++ is a load and a store, with no lock around them.
KillLoadCount(n) ==
    /\ kGoPc[n] = "load"
    /\ kTmp' = [kTmp EXCEPT ![n] = notFoundCount]
    /\ kGoPc' = [kGoPc EXCEPT ![n] = "store"]
    /\ UNCHANGED <<kPc, kHost, kReply, kErr, notFoundCount, kRet>>
    /\ KillFrame

KillStoreCount(n) ==
    /\ kGoPc[n] = "store"
    /\ notFoundCount' = kTmp[n] + 1
    /\ kGoPc' = [kGoPc EXCEPT ![n] = "done"]
    /\ UNCHANGED <<kPc, kHost, kReply, kTmp, kErr, kRet>>
    /\ KillFrame

\* wg.Wait() returns and notFoundCount is compared with len(nodes).
KillReturn ==
    /\ kPc = "wait"
    /\ \A n \in DOMAIN kGoPc : kGoPc[n] = "done"
    /\ kRet' = IF notFoundCount = Len(kGoPc) THEN "errQueryNotFound" ELSE "nil"
    /\ kPc' = "returned"
    /\ UNCHANGED <<kHost, kGoPc, kReply, kTmp, kErr, notFoundCount>>
    /\ KillFrame

KillNext ==
    \/ KillStart
    \/ \E n \in DOMAIN kGoPc : KillCall(n)
    \/ \E n \in DOMAIN kGoPc : KillTest(n)
    \/ \E n \in DOMAIN kGoPc : KillLoadCount(n)
    \/ \E n \in DOMAIN kGoPc : KillStoreCount(n)
    \/ KillReturn

KillSpec == KillInit /\ [][KillNext]_vars

\* ------------------------------------------------------ limitStringSlice

\* The int of Go, two's complement, at a width of IntBits bits.
IntBits == 4
MaxInt == 2 ^ (IntBits - 1) - 1
WrapInt(x) == ((x + 2 ^ (IntBits - 1)) % 2 ^ IntBits) - 2 ^ (IntBits - 1)

MaxSliceLen == 3

\* limitStringSlice: what it returns, or that the slice expression panics
\* because its bounds are out of range.
limitStringSlice(s, offset, limit) ==
    LET l == Len(s)
        sum == WrapInt(offset + limit)
        end == IF limit = 0 \/ sum >= l THEN l ELSE sum
    IN  IF offset >= l THEN [panic |-> FALSE, out |-> <<>>]
        ELSE IF offset < 0 \/ end < offset THEN [panic |-> TRUE, out |-> <<>>]
        ELSE [panic |-> FALSE, out |-> SubSeq(s, offset + 1, end)]

LimitInit ==
    /\ lPc = "start"
    /\ lS \in UNION {[1..n -> {"a", "b"}] : n \in 0..MaxSliceLen}
    /\ lOffset \in -1..MaxInt
    /\ lLimit \in -1..MaxInt
    /\ lOut = <<>>
    /\ DispatchIdle
    /\ MergeIdle
    /\ CardIdle
    /\ QueryIdle
    /\ KillIdle
    /\ KeysIdle
    /\ StatIdle

\* limitStringSlice is applied.
LimitApply ==
    /\ lPc = "start"
    /\ LET r == limitStringSlice(lS, lOffset, lLimit)
       IN  /\ lPc' = IF r.panic THEN "panicked" ELSE "returned"
           /\ lOut' = r.out
    /\ UNCHANGED <<lS, lOffset, lLimit>>
    /\ LimitFrame

LimitNext == LimitApply

LimitSpec == LimitInit /\ [][LimitNext]_vars

\* ----------------------------------------------- the show-keys handlers

MaxKeys == 2

ShowKeysKinds == {"ShowTagKeys", "ShowTagKeyCardinality", "ShowFieldKeys",
                  "ShowFieldKeyCardinality"}
\* The handlers that begin with the test of q.Condition.
ShowKeysConditionKinds == {"ShowTagKeys", "ShowTagKeyCardinality",
                           "ShowFieldKeyCardinality"}
TagKeysKinds == {"ShowTagKeys", "ShowTagKeyCardinality"}

ErrDatabaseNameRequired == "ErrDatabaseNameRequired"

\* Measurement names "m", "n", ... and key names "x", "y", ... as bytes.
KeysMeasurements == {<<108 + i>> : i \in 1..MaxMeasurements}
KeyNames == {<<119 + i>> : i \in 1..MaxKeys}

\* The name the metadata service keys the tag keys of a measurement by: the
\* measurement's name and its version; GetOriginMstName takes the version
\* off again.
MstVersion == <<95, 48, 48, 48, 48>>
NameWithVer(name) == name \o MstVersion
GetOriginMstName(nameWithVer) ==
    SubSeq(nameWithVer, 1, Len(nameWithVer) - Len(MstVersion))

\* influx.FieldTypeString of the type the metadata service holds for a field.
FieldTypeOf(field) == IF field = <<120>> THEN "float" ELSE "integer"

\* The elements of a finite set of names in ascending order: sort.Strings,
\* sort.Sort(meta.FieldKeys) and sort.Stable by Name over distinct names.
SortedNames(S) ==
    CHOOSE f \in [1..Cardinality(S) -> S] :
        \A i, j \in 1..Cardinality(S) : i < j => StringLess(f[i], f[j])

\* StatementExecutor.TagKeys: one entry for every name of the reply, with
\* the version taken off and the keys sorted, the entries sorted by Name.
TagKeys(tagKeysMap) ==
    LET names == SortedNames({GetOriginMstName(nv) : nv \in DOMAIN tagKeysMap})
    IN  [i \in 1..Len(names) |->
           [Name |-> names[i], Keys |-> SortedNames(tagKeysMap[NameWithVer(names[i])])]]

\* StatementExecutor.FieldKeys: the same over the reply keyed by name.
FieldKeys(fieldKeysMap) ==
    LET names == SortedNames(DOMAIN fieldKeysMap)
    IN  [i \in 1..Len(names) |->
           [Name |-> names[i], Keys |-> SortedNames(fieldKeysMap[names[i]])]]

\* Keys that are all kept.
keepAllKeys(keys, offset, limit) == keys

\* The offset and the limit of executeShowTagKeys applied to one list.
limitKeys(keys, offset, limit) ==
    LET afterOffset == IF offset > 0
                       THEN (IF offset >= Len(keys) THEN <<>>
                             ELSE SubSeq(keys, offset + 1, Len(keys)))
                       ELSE keys
    IN  IF limit > 0 /\ limit < Len(afterOffset)
        THEN SubSeq(afterOffset, 1, limit)
        ELSE afterOffset

\* The keys a handler reports for an entry of its table.
ReportedKeys(kind, entry, offset, limit) ==
    IF kind = "ShowTagKeys" THEN limitKeys(entry.Keys, offset, limit)
    ELSE entry.Keys

\* The row a handler builds for a measurement and the keys it reports.
KeysRow(kind, name, keys) ==
    IF kind = "ShowTagKeys"
    THEN [Name |-> name, Columns |-> <<"tagKey">>,
          Values |-> [i \in 1..Len(keys) |-> <<keys[i]>>]]
    ELSE IF kind = "ShowFieldKeys"
    THEN [Name |-> name, Columns |-> <<"fieldKey", "fieldType">>,
          Values |-> [i \in 1..Len(keys) |-> <<keys[i], FieldTypeOf(keys[i])>>]]
    ELSE [Name |-> name, Columns |-> <<"count">>, Values |-> <<<<Len(keys)>>>>]

\* &query.Result{Series: []*models.Row{row}} and &query.Result{}.
KeysResult(row) == [series |-> <<row>>]
KeysEmptyResult == [series |-> <<>>]

\* The replies of the metadata service: some measurements, each with some
\* keys or none.
KeysReplies(kind) ==
    UNION {[{IF kind \in TagKeysKinds THEN NameWithVer(n) ELSE n : n \in S}
               -> SUBSET KeyNames] : S \in SUBSET KeysMeasurements}

ShowKeysInit ==
    /\ skPc = "start"
    /\ skKind \in ShowKeysKinds
    /\ skMap \in KeysReplies(skKind)
    /\ skOffset \in (IF skKind = "ShowTagKeys" THEN -1..(MaxKeys + 1) ELSE {0})
    /\ skLimit \in (IF skKind = "ShowTagKeys" THEN -1..(MaxKeys + 1) ELSE {0})
    /\ skTable = <<>>
    /\ skI = 0
    /\ skEmitted = FALSE
    /\ skSink = <<>>
    /\ skRet = "nil"
    /\ DispatchIdle
    /\ MergeIdle
    /\ CardIdle
    /\ QueryIdle
    /\ KillIdle
    /\ LimitIdle
    /\ StatIdle

\* A handler up to its loop: the tests of q.Condition and q.Database, and
\* the call of TagKeys or FieldKeys, whose error is returned.
ShowKeysStart ==
    /\ skPc = "start"
    /\ \E condition \in BOOLEAN, noDatabase \in BOOLEAN,
          fetchErr \in {ErrNil, "errInternal"} :
         IF skKind \in ShowKeysConditionKinds /\ condition
         THEN /\ skRet' = ErrUnsupportCommand
              /\ skPc' = "returned"
              /\ UNCHANGED <<skTable, skI>>
         ELSE IF noDatabase
         THEN /\ skRet' = ErrDatabaseNameRequired
              /\ skPc' = "returned"
              /\ UNCHANGED <<skTable, skI>>
         ELSE IF fetchErr # ErrNil
         THEN /\ skRet' = fetchErr
              /\ skPc' = "returned"
              /\ UNCHANGED <<skTable, skI>>
         ELSE /\ skTable' = IF skKind \in TagKeysKinds
                             THEN TagKeys(skMap) ELSE FieldKeys(skMap)
              /\ skI' = 1
              /\ skPc' = "loop"
              /\ UNCHANGED skRet
    /\ UNCHANGED <<skKind, skMap, skOffset, skLimit, skEmitted, skSink>>
    /\ KeysFrame

\* One iteration of the loop over the table: an entry left without keys is
\* passed over, for any other one Result is sent; a Send that fails ends
\* the handler with its error.
ShowKeysIterate ==
    /\ skPc = "loop"
    /\ skI <= Len(skTable)
    /\ LET keys == ReportedKeys(skKind, skTable[skI], skOffset, skLimit)
       IN  IF Len(keys) = 0
           THEN /\ skI' = skI + 1
                /\ UNCHANGED <<skPc, skEmitted, skSink, skRet>>
           ELSE \E okSend \in BOOLEAN :
                  IF okSend
                  THEN /\ skSink' = Append(skSink,
                                 KeysResult(KeysRow(skKind, skTable[skI].Name, keys)))
                       /\ skEmitted' = TRUE
                       /\ skI' = skI + 1
                       /\ UNCHANGED <<skPc, skRet>>
                  ELSE /\ skRet' = ErrSend
                       /\ skPc' = "returned"
                       /\ UNCHANGED <<skI, skEmitted, skSink>>
    /\ UNCHANGED <<skKind, skMap, skOffset, skLimit, skTable>>
    /\ KeysFrame

\* After the loop: one empty Result is sent unless a Result was sent, and
\* the outcome of that Send is returned.
ShowKeysFinish ==
    /\ skPc = "loop"
    /\ skI > Len(skTable)
    /\ IF ~skEmitted
       THEN \E okSend \in BOOLEAN :
              /\ skSink' = IF okSend THEN Append(skSink, KeysEmptyResult) ELSE skSink
              /\ skRet' = IF okSend THEN ErrNil ELSE ErrSend
       ELSE /\ skRet' = ErrNil
            /\ UNCHANGED skSink
    /\ skPc' = "returned"
    /\ UNCHANGED <<skKind, skMap, skOffset, skLimit, skTable, skI, skEmitted>>
    /\ KeysFrame

ShowKeysNext ==
    \/ ShowKeysStart
    \/ ShowKeysIterate
    \/ ShowKeysFinish

ShowKeysSpec == ShowKeysInit /\ [][ShowKeysNext]_vars

\* ------------------------------------------------------------ Statistics

\* The period of the full collection, in calls.
dbStatPeriod == 30

MaxStatCalls == 65
MaxStatFailures == 2

\* A counter that is never set back.
neverReset(count) == count

\* if dbStatCount == 30 { dbStatCount = 0 }
resetAtPeriod(count) == IF count = dbStatPeriod THEN 0 ELSE count

StatInit ==
    /\ dbStatCount = 0
    /\ stCalls = 0
    /\ stFailures = 0
    /\ stLast = "none"
    /\ DispatchIdle
    /\ MergeIdle
    /\ CardIdle
    /\ QueryIdle
    /\ KillIdle
    /\ LimitIdle
    /\ KeysIdle

\* One call of Statistics.  With dbStatCount off a multiple of the period
\* it collects the cached statistics and counts, setting the counter back
\* at the period.  Otherwise it goes through the databases; an error of
\* MatchMeasurements or executeShowSeriesCardinality is returned with the
\* counter as it was, and without one the call collects and counts.
Statistics ==
    /\ IF dbStatCount % dbStatPeriod # 0
       THEN /\ stCalls < MaxStatCalls
            /\ dbStatCount' = resetAtPeriod(dbStatCount + 1)
            /\ stCalls' = stCalls + 1
            /\ stLast' = "cached"
            /\ UNCHANGED stFailures
       ELSE \E out \in {"collected", "errMatchMeasurements", "errCardinality"} :
              IF out = "collected"
              THEN /\ stCalls < MaxStatCalls
                   /\ dbStatCount' = dbStatCount + 1
                   /\ stCalls' = stCalls + 1
                   /\ stLast' = "full"
                   /\ UNCHANGED stFailures
              ELSE /\ stFailures < MaxStatFailures
                   /\ stFailures' = stFailures + 1
                   /\ stLast' = out
                   /\ UNCHANGED <<dbStatCount, stCalls>>
    /\ StatFrame

StatNext == Statistics

StatSpec == StatInit /\ [][StatNext]_vars

\* ------------------------------------------- properties of the SELECT path
\* The current executeSelectStatement call has returned.
SelectCallReturned == stmtKind = "Select" /\ pc \in {"selReturned", "returned"}

\* C1, as stated: when a plan was constructed, its execution completed
\* without error and proxy.rc was closed without a batch ever having been
\* delivered, exactly one empty Result is in the sink at seq and nil is
\* returned.
C1_AsStated ==
    (SelectCallReturned /\ prodPc = "done" /\ execRet = ErrNil /\ prodSent = 0)
        => (sink = <<EmptyResult(seq)>> /\ selErr = ErrNil)

\* C1, amended: when moreover the receive loop found proxy.rc closed (it
\* did not see the cancellation first), exactly one Send of an empty Result
\* at seq is made and its outcome is returned: nil with that one Result in
\* the sink, or the Send's error with nothing delivered.
C1_EmptyResultOnQuietClose ==
    (SelectCallReturned /\ closed /\ execRet = ErrNil /\ prodSent = 0)
        => /\ sendCalls = 1
           /\ \/ selErr = ErrNil /\ sink = <<EmptyResult(seq)>>
              \/ selErr = ErrSend /\ sink = <<>>

C1_Witness ==
    /\ SelectCallReturned /\ closed /\ execRet = ErrNil /\ prodSent = 0
    /\ pc = "returned" /\ ret = ErrNil /\ sink = <<EmptyResult(seq)>>

\* C2: once the receive loop has taken the cancellation branch, the plan is
\* aborted, proxy.wait() runs in the background, ctx.Err() is what the call
\* (and then ExecuteStatement) returns, and the caller never got to
\* wg.Wait() nor read ec, whatever the producer goroutine is doing.
C2_CancelReturnsAtOnce ==
    (stmtKind = "Select" /\ selErr = ErrCtx)
        => /\ pc \in {"selReturned", "returned"}
           /\ pc = "returned" => ret = ErrCtx
           /\ aborted
           /\ drainPc # "off"
           /\ ~reachedWait
           /\ ~closed
           /\ (execRet # "none" => ec = <<execRet>>)

\* The call has returned the cancellation error while the producer
\* goroutine is still blocked in a send.
C2_Witness ==
    /\ pc = "returned" /\ ret = ErrCtx
    /\ prodPc = "sending" /\ ~reachedWait

\* C3: after a cancelled SELECT every send the producer has pending is
\* eventually received, the producer goroutine eventually ends (having
\* closed the proxy), and proxy.wait() eventually returns.
C3_DrainerFreesProducer ==
    /\ (stmtKind = "Select" /\ selErr = ErrCtx)
           ~> (prodPc = "done" /\ drainPc = "done" /\ rcClosed /\ finClosed)
    /\ (stmtKind = "Select" /\ selErr = ErrCtx /\ rcPending # <<>>)
           ~> (rcPending = <<>>)

\* The cancelled call's producer emitted batches that only proxy.wait()
\* received, and both goroutines have ended.
C3_Witness ==
    /\ selErr = ErrCtx /\ pc = "returned"
    /\ drained = MaxBatches /\ prodPc = "done" /\ drainPc = "done"

\* ---------------------------------------- properties of the retry wrappers
\* retryExecuteStatement has returned.
RetryStmtReturned == stmtKind \in RetryKinds /\ pc \in {"rsReturned", "returned"}

\* The errors retryExecuteStatement is to try again on.
RetryableClass(err) ==
    IsRetriedError(err) \/ ErrorContains(err, "repeat mark delete")

\* C4: when the attempts failed k times with retryable errors and then one
\* succeeded, retryExecuteStatement returns nil with that attempt's rows
\* after exactly k+1 attempts (and k sleeps); and it gives up after a
\* retryable failure only when the budget is used up, so k failures that
\* fit inside the budget are always followed by attempt k+1.
C4_RetrySucceedsAfterK ==
    RetryStmtReturned =>
        LET n == Len(rsLog)
        IN  /\ n >= 1
            /\ rsRetryNum = n
            /\ rsLog[n].err = ErrNil =>
                  /\ rsErr = ErrNil
                  /\ rsRows = rsLog[n].rows
                  /\ \A j \in 1..(n - 1) : RetryableClass(rsLog[j].err)
                  /\ rsSleeps = n - 1
            /\ (rsLog[n].err # ErrNil /\ RetryableClass(rsLog[n].err)) =>
                  rsNow >= DMLTimeOut

\* Two retryable failures (one of each kind), then success with rows.
C4_Witness ==
    /\ RetryStmtReturned /\ stmtKind = "ShowTagValues"
    /\ Len(rsLog) = 3
    /\ rsLog[1].err = "errMarkDelete" /\ rsLog[2].err = "errRetried"
    /\ rsLog[3].err = ErrNil /\ rsRows = "rowsB" /\ rsErr = ErrNil

\* C5: when the first attempt fails with a non-retryable error,
\* retryExecuteStatement returns that error after this one attempt, without
\* sleeping, and ExecuteStatement returns it unchanged.
C5_NonRetryableReturnsAtOnce ==
    (stmtKind \in RetryKinds /\ Len(rsLog) >= 1
       /\ rsLog[1].err # ErrNil /\ ~RetryableClass(rsLog[1].err))
        => /\ pc \in {"rsReturned", "returned"}
           /\ Len(rsLog) = 1
           /\ rsRetryNum = 1
           /\ rsSleeps = 0
           /\ rsErr = rsLog[1].err
           /\ pc = "returned" => (ret = rsLog[1].err /\ sink = <<>>)

C5_Witness ==
    /\ stmtKind = "DropDatabase" /\ pc = "returned"
    /\ Len(rsLog) = 1
    /\ rsLog[1].err = "errInternal"
    /\ ret = "errInternal"

\* C6: each of the three retry loops ends: retryExecuteStatement and
\* retryCreatePipelineExecutor return, and so does
\* retryExecuteSelectStatement, whatever the attempts return; a panic of
\* plan construction that is raised again ends the two loops it unwinds.
C6_RetryLoopsTerminate ==
    /\ (pc = "rsLoop") ~> (pc = "rsReturned")
    /\ (pc = "cpLoop") ~> (pc \in {"selCreated", "panicked"})
    /\ (pc = "selRetry") ~> (pc \in {"returned", "panicked"})

\* retryExecuteSelectStatement ran out of attempts on retry errors.
C6_Witness ==
    /\ stmtKind = "Select" /\ pc = "returned"
    /\ selI = maxRetrySelectCount /\ IsRetryErrorForPtView(ret)

\* ---------------------------------------- properties of the result mergers

\* The byte-lexicographic order, stated on its own: a comes before b when a
\* is a proper prefix of b, or holds the smaller byte where they first differ.
LexBefore(a, b) ==
    \E k \in 0..Len(a) :
        /\ k <= Len(b)
        /\ \A i \in 1..k : a[i] = b[i]
        /\ \/ k = Len(a) /\ k < Len(b)
           \/ k < Len(a) /\ k < Len(b) /\ a[k + 1] < b[k + 1]

\* Every name of every reply that decodes.
AllNamesIn(msgs) ==
    UNION {SeqToSet(msgs[n].val) : n \in {m \in DOMAIN msgs : msgs[m].kind = "json"}}

AllDecode(msgs) == \A n \in DOMAIN msgs : msgs[n].kind # "malformed"

\* C7: when every reply decodes, MergeMeasurementsNames returns no error and
\* the names of all the replies, each once, in byte-lexicographic order; every
\* order of the nodes and of the map walk gives that same list; and merging
\* the replies together with the merged list, or with one reply a second
\* time, gives it again.
C7_NamesMergeIsSortedUnion ==
    (mKind = "names" /\ mPc \in {"merged", "remerged"} /\ AllDecode(mIn)) =>
        /\ ~mOut.err
        /\ SeqToSet(mOut.names) = AllNamesIn(mIn)
        /\ \A i, j \in 1..Len(mOut.names) :
              i < j => LexBefore(mOut.names[i], mOut.names[j])
        /\ \A order \in NodeOrders(DOMAIN mIn), style \in WalkStyles :
              MergeMeasurementsNames(mIn, order, style) = mOut
        /\ mPc = "remerged" => mAgain = mOut

C7_Witness ==
    /\ mKind = "names"
    /\ mPc = "remerged"
    /\ mIn = <<Marshal(<<<<110>>, <<109>>>>), Marshal(<<<<109, 49>>, <<109>>>>)>>
    /\ mOut = [err |-> FALSE, names |-> <<<<109>>, <<109, 49>>, <<110>>>>]
    /\ mAgain = mOut

\* The entries that the nodes' results hold, whichever node they came from.
EntriesIn(byNode) == UNION {SeqToSet(byNode[n]) : n \in DOMAIN byNode}

KeysUnder(byNode, name) ==
    UNION {SeqToSet(e.Keys) : e \in {x \in EntriesIn(byNode) : x.Name = name}}

ValuesUnder(byNode, name) ==
    UNION {SeqToSet(e.Values) : e \in {x \in EntriesIn(byNode) : x.Name = name}}

\* Pairs by key, then by value.
PairBefore(a, b) ==
    LexBefore(a.Key, b.Key) \/ (a.Key = b.Key /\ LexBefore(a.Value, b.Value))

\* C8: MergeTagKeys and MergeTagValues return the measurements of the nodes'
\* results in the order of their names, each once, and under each the union
\* of its keys (of its key/value pairs) over all the nodes, each once, keys in
\* byte order and pairs by key and then by value.
C8_TagMergeIsSortedUnionPerName ==
    /\ (mKind = "tagKeys" /\ mPc = "merged") =>
          /\ {mOut[i].Name : i \in 1..Len(mOut)} = {e.Name : e \in EntriesIn(mIn)}
          /\ \A i, j \in 1..Len(mOut) : i < j => LexBefore(mOut[i].Name, mOut[j].Name)
          /\ \A i \in 1..Len(mOut) :
                /\ SeqToSet(mOut[i].Keys) = KeysUnder(mIn, mOut[i].Name)
                /\ \A k, l \in 1..Len(mOut[i].Keys) :
                      k < l => LexBefore(mOut[i].Keys[k], mOut[i].Keys[l])
    /\ (mKind = "tagValues" /\ mPc = "merged") =>
          /\ {mOut[i].Name : i \in 1..Len(mOut)} = {e.Name : e \in EntriesIn(mIn)}
          /\ \A i, j \in 1..Len(mOut) : i < j => LexBefore(mOut[i].Name, mOut[j].Name)
          /\ \A i \in 1..Len(mOut) :
                /\ SeqToSet(mOut[i].Values) = ValuesUnder(mIn, mOut[i].Name)
                /\ \A k, l \in 1..Len(mOut[i].Values) :
                      k < l => PairBefore(mOut[i].Values[k], mOut[i].Values[l])

\* Node A holds {m: [x, y]}, node B holds {m: [y, z]}: the merge is
\* {m: [x, y, z]}.
C8_Witness ==
    /\ mKind = "tagKeys"
    /\ mPc = "merged"
    /\ mIn = << <<[Name |-> <<109>>, Keys |-> <<<<120>>, <<121>>>>]>>,
                <<[Name |-> <<109>>, Keys |-> <<<<121>>, <<122>>>>]>> >>
    /\ mOut = <<[Name |-> <<109>>, Keys |-> <<<<120>>, <<121>>, <<122>>>>]>>

\* ------------------------------- properties of showSeriesExactCardinality

\* The count of a measurement in the reply of node n, 0 when the reply does
\* not name it, and the total over the nodes 1..k.
CountAt(n, name) == IF name \in DOMAIN cbTmp[n].tmp THEN cbTmp[n].tmp[name] ELSE 0

RECURSIVE TotalUpTo(_, _)
TotalUpTo(k, name) == IF k = 0 THEN 0 ELSE CountAt(k, name) + TotalUpTo(k - 1, name)

EveryCallbackSucceeded == \A n \in DOMAIN cbTmp : cbTmp[n].err = "nil"

\* C9: when SeriesExactCardinality succeeded for every node, whatever the
\* interleaving of the callbacks, showSeriesExactCardinality returns no error
\* and one row for each measurement that some node named, and no other row;
\* its count is the total of that measurement's counts over the nodes.
C9_ExactCountsAreSummed ==
    (cardPc = "returned" /\ EveryCallbackSucceeded) =>
        /\ cardErr = "nil"
        /\ {cardRows[i].Name : i \in 1..Len(cardRows)}
              = UNION {DOMAIN cbTmp[n].tmp : n \in DOMAIN cbTmp}
        /\ \A i, j \in 1..Len(cardRows) : cardRows[i].Name = cardRows[j].Name => i = j
        /\ \A i \in 1..Len(cardRows) :
              cardRows[i].count = TotalUpTo(Len(cbTmp), cardRows[i].Name)

\* Node A answers {m: 3} and node B {m: 5}: the row of m counts 8.
C9_Witness ==
    /\ cardPc = "returned"
    /\ Len(cbTmp) = 2
    /\ cbTmp[1] = [err |-> "nil", tmp |-> [name \in {<<109>>} |-> 3]]
    /\ cbTmp[2] = [err |-> "nil", tmp |-> [name \in {<<109>>} |-> 5]]
    /\ cardRows = <<[Name |-> <<109>>, count |-> 8]>>

\* ------------------------------------- properties of the running-query view

\* The entries combined so far that carry the query id.
ReportedFor(id) ==
    UNION {{e \in SeqToSet(qInfos[i].infos) : e.QueryID = id} : i \in 1..qNode}

Earliest(infos) == CHOOSE t \in {e.BeginTime : e \in infos} : \A e \in infos : t <= e.BeginTime

\* C10 as stated: the beginTime under a query id is the least BeginTime of
\* the entries reported for that id.
C10_AsStated ==
    \A id \in DOMAIN resMap : resMap[id].beginTime = Earliest(ReportedFor(id))

\* C10: every query id reported has a combined entry, whose beginTime is the
\* BeginTime of one of the entries reported for the id with the text the
\* combined entry carries; when all the entries reported for the id carry
\* one text, it is the least of their BeginTimes.
C10_BeginTimeIsEarliestOfOneText ==
    /\ DOMAIN resMap = {id \in {1, 2} : ReportedFor(id) # {}}
    /\ \A id \in DOMAIN resMap :
          /\ \E e \in ReportedFor(id) :
                e.Stmt = resMap[id].stmt /\ e.BeginTime = resMap[id].beginTime
          /\ (\A e \in ReportedFor(id) : e.Stmt = resMap[id].stmt) =>
                resMap[id].beginTime = Earliest(ReportedFor(id))

\* Two hosts reported query 1 with one text, the second the earlier begin.
C10_Witness ==
    /\ qNode >= 2
    /\ qInfos[1].infos = <<QueryExeInfo(1, "select A", 2, Running)>>
    /\ qInfos[2].infos = <<QueryExeInfo(1, "select A", 1, Running)>>
    /\ resMap[1].beginTime = 1
    /\ resMap[1].runningHosts = {1, 2}

\* The places (node, position in the node's list) of the entries combined so
\* far that carry the query id, and the entry at a place.
PlacesOf(id) ==
    {p \in (1..qNode) \X (1..2) :
        p[2] <= Len(qInfos[p[1]].infos) /\ qInfos[p[1]].infos[p[2]].QueryID = id}

EntryAt(p) == qInfos[p[1]].infos[p[2]]

\* The hosts whose latest entry for the id, in the order of combining, says
\* the given run state.
HostsLastSaying(id, state) ==
    {Host(p[1]) : p \in {q \in PlacesOf(id) :
        /\ EntryAt(q).RunState = state
        /\ \A r \in PlacesOf(id) : r[1] = q[1] => r[2] <= q[2]}}

\* The hosts that have some entry for the id saying the given run state.
HostsEverSaying(id, state) ==
    {Host(p[1]) : p \in {q \in PlacesOf(id) : EntryAt(q).RunState = state}}

OneText(id) == \A p, q \in PlacesOf(id) : EntryAt(p).Stmt = EntryAt(q).Stmt

OncePerHost(id) == \A p, q \in PlacesOf(id) : p[1] = q[1] => p = q

RowsOf(id) == {i \in 1..Len(qRows) : qRows[i].qid = id}

\* C12: the rows of the listing stand in the order of the combined begin
\* times, ascending; a query with no running host has no row, one with
\* running and killed hosts has two adjacent rows, the "killed" row with the
\* killed hosts and then the "running" row with the running hosts, and one
\* with running hosts only has one "running" row.
C12_RowsSortedAndSplit ==
    qPc = "returned" =>
        /\ \A i \in 1..Len(qRows) : qRows[i].qid \in DOMAIN resMap
        /\ \A i, j \in 1..Len(qRows) :
              i < j => resMap[qRows[i].qid].beginTime <= resMap[qRows[j].qid].beginTime
        /\ \A id \in DOMAIN resMap :
              LET q == resMap[id]
              IN  IF q.runningHosts = {} THEN RowsOf(id) = {}
                  ELSE IF q.killedHosts # {}
                  THEN \E i \in 1..Len(qRows) :
                         /\ RowsOf(id) = {i, i + 1}
                         /\ qRows[i].status = "killed" /\ qRows[i].host = q.killedHosts
                         /\ qRows[i + 1].status = "running" /\ qRows[i + 1].host = q.runningHosts
                         /\ qRows[i].query = q.stmt /\ qRows[i + 1].query = q.stmt
                  ELSE \E i \in 1..Len(qRows) :
                         /\ RowsOf(id) = {i}
                         /\ qRows[i].status = "running" /\ qRows[i].host = q.runningHosts
                         /\ qRows[i].query = q.stmt

\* Query 2 began at 1 and runs on host 1; query 1 began at 2, runs on host 1
\* and is killed on host 2: three rows, those of query 2 first.
C12_Witness ==
    /\ qPc = "returned"
    /\ Len(qRows) = 3
    /\ qRows[1].qid = 2 /\ qRows[1].status = "running"
    /\ qRows[2].qid = 1 /\ qRows[2].status = "killed" /\ qRows[2].host = {2}
    /\ qRows[3].qid = 1 /\ qRows[3].status = "running" /\ qRows[3].host = {1}
    /\ resMap[2].beginTime < resMap[1].beginTime

\* ------------------------------------------- properties of executeKillQuery

\* The kill requests were sent and executeKillQuery has returned.
KillFannedOut == kPc = "returned" /\ ~kHost /\ kRet # "errDataNodes"

\* C13 as stated: whatever the interleaving of the goroutines, the call
\* returns the query-not-found error when every node answered query not
\* found, and nil when the kill succeeded on some node.
C13_AsStated ==
    (KillFannedOut /\ Len(kReply) >= 1) =>
        /\ (\A n \in DOMAIN kReply : kReply[n] = "errQueryNotFound")
              => kRet = "errQueryNotFound"
        /\ (\E n \in DOMAIN kReply : kReply[n] = "nil") => kRet = "nil"

\* C14 as stated: when the kill succeeded on no node, the call does not
\* return nil.
C14_AsStated ==
    (KillFannedOut /\ \A n \in DOMAIN kReply : kReply[n] # "nil") => kRet # "nil"

\* ------------------------------------------- properties of limitStringSlice

\* C15 as stated: for offset >= 0 and limit >= 0 the function returns nothing
\* when offset >= len(s), and otherwise the elements of s from index offset up
\* to, not including, index min(offset+limit, len(s)), where limit = 0 stands
\* for no limit.
C15_AsStated ==
    (lPc # "start" /\ lOffset >= 0 /\ lLimit >= 0) =>
        /\ lPc = "returned"
        /\ LET l == Len(lS)
               stop == IF lLimit = 0 \/ lOffset + lLimit >= l THEN l ELSE lOffset + lLimit
           IN  lOut = IF lOffset >= l THEN <<>>
                      ELSE [i \in 1..(stop - lOffset) |-> lS[lOffset + i]]

\* --------------------------------- properties of the dispatcher, SELECT apart

\* The call is of a kind marked unsupported.
UnsupportedCall ==
    \/ stmtKind \in {"DeleteSeries", "DropSeries", "DropShard", "ShowDiagnostics",
                     "PrepareSnapshot", "EndPrepareSnapshot", "GetRuntimeInfo"}
    \/ stmtKind \in {"ShowMeasurements", "ShowMeasurementCardinality"} /\ stmtCondition
    \/ stmtKind = "KillQuery" /\ stmtHost

\* C16: a call with a statement of a kind marked unsupported never calls the
\* meta client, the storage transport or the retry wrapper, never calls Send,
\* sends no Result, and returns ErrUnsupportCommand.
C16_UnsupportedReturnsAtOnce ==
    UnsupportedCall =>
        /\ called = {}
        /\ sendCalls = 0
        /\ sink = <<>>
        /\ pc \in {"dispatch", "handlerReturned", "returned"}
        /\ pc = "handlerReturned" => stmtKind = "KillQuery" /\ hErr = ErrUnsupportCommand
        /\ pc = "returned" => ret = ErrUnsupportCommand

\* Show measurements with a condition has returned ErrUnsupportCommand.
C16_Witness ==
    /\ pc = "returned"
    /\ stmtKind = "ShowMeasurements"
    /\ stmtCondition
    /\ ret = ErrUnsupportCommand
    /\ called = {}

\* C17: a call with a statement of a kind the type switch has no branch for
\* calls nothing, sends no Result and returns ErrInvalidQuery.
C17_NoBranchIsInvalidQuery ==
    (stmtKind \notin BranchKinds) =>
        /\ called = {}
        /\ sendCalls = 0
        /\ sink = <<>>
        /\ pc \in {"dispatch", "returned"}
        /\ pc = "returned" => ret = ErrInvalidQuery

\* A delete statement has returned ErrInvalidQuery.
C17_Witness ==
    /\ pc = "returned"
    /\ stmtKind = "Delete"
    /\ ret = ErrInvalidQuery
    /\ sink = <<>>

\* The kinds whose handler hands rows or only an error back, and whose
\* branch hands them on to the end of the dispatcher.
HandBackKinds ==
    (RetryKinds \ SendingKinds) \cup ErrHandlerKinds \cup RowsHandlerKinds
        \cup {"KillQuery"}

\* The handler of the call has returned; what it handed back.
HandlerReturned ==
    /\ stmtKind \in HandBackKinds
    /\ pc \in {"rsReturned", "handlerReturned", "returned"}
    /\ ~(stmtKind \in ConditionKinds /\ stmtCondition)
HandedBackErr == IF stmtKind \in RetryKinds THEN rsErr ELSE hErr
HandedBackRows ==
    IF stmtKind \in RetryKinds THEN rsRows
    ELSE IF stmtKind \in RowsHandlerKinds THEN hRows ELSE NoRows

\* C18: once the handler of such a kind has failed, the call sends no Result
\* and returns the handler's error; once it has succeeded, the call makes
\* one Send, of one Result holding the handler's rows at seq, and returns
\* nil exactly when the sink accepted that Result.
C18_OneResultOrTheHandlersError ==
    HandlerReturned =>
        IF HandedBackErr # ErrNil
        THEN /\ sink = <<>>
             /\ sendCalls = 0
             /\ pc = "returned" => ret = HandedBackErr
        ELSE /\ pc # "returned" => sink = <<>> /\ sendCalls = 0
             /\ pc = "returned" =>
                   /\ sendCalls = 1
                   /\ ret \in {ErrNil, ErrSend}
                   /\ Len(sink) = IF ret = ErrNil THEN 1 ELSE 0
                   /\ \A i \in 1..Len(sink) :
                         sink[i].series = HandedBackRows /\ sink[i].seq = seq

\* Show databases has sent its rows in one Result at seq and returned nil.
C18_Witness ==
    /\ pc = "returned"
    /\ stmtKind = "ShowDatabases"
    /\ hErr = ErrNil
    /\ hRows = "rowsB"
    /\ ret = ErrNil
    /\ Len(sink) = 1
    /\ sink[1].series = "rowsB" /\ sink[1].seq = seq

\* C19 as stated: a call that returned nil has sent at most one Result,
\* unless its kind sends one Result per measurement; then the Results sent
\* are one per measurement, or one empty Result when there is none, and
\* nothing more.
C19_AsStated ==
    (pc = "returned" /\ ret = ErrNil) =>
        IF stmtKind \in {"ShowFieldKeys", "ShowFieldKeyCardinality",
                         "ShowTagKeys", "ShowTagKeyCardinality"}
        THEN \/ sink = <<Result(NoRows, FALSE, seq)>>
             \/ /\ Len(sink) >= 1
                /\ \A i \in 1..Len(sink) : sink[i] = Result(RowOf(i), FALSE, seq)
        ELSE Len(sink) <= 1

\* C20 as stated: a call that returned nil has sent at least one Result; a
\* call that returned an error made no Send after the error arose: none at
\* all, or the failed Send last.
C20_AsStated ==
    pc = "returned" =>
        IF ret = ErrNil
        THEN Len(sink) >= 1
        ELSE Len(sink) = IF ret = ErrSend THEN sendCalls - 1 ELSE 0

\* ------------------------------------------ properties of what the sink sees

\* C21: every Result the sink accepted during the call carries seq; during
\* a SELECT the sink holds the batches the plan emitted in the order the
\* plan emitted them, without a gap, each sent before the next was
\* received: all Sends but possibly the last one were accepted.
C21_ResultsAtSeqInOrder ==
    /\ \A i \in 1..Len(sink) : sink[i].seq = seq
    /\ (stmtKind = "Select" /\ emitted) =>
          /\ \A i \in 1..Len(sink) : sink[i].series = i
          /\ Len(sink) <= prodSent
          /\ Len(sink) \in {sendCalls, sendCalls - 1}

\* A SELECT has returned nil after the sink accepted two batches.
C21_Witness ==
    /\ stmtKind = "Select"
    /\ pc = "returned"
    /\ ret = ErrNil
    /\ Len(sink) = 2
    /\ sink[1].series = 1 /\ sink[2].series = 2
    /\ sink[1].seq = seq /\ sink[2].seq = seq

\* ------------------------------------- properties of SELECT plan construction

\* retryCreatePipelineExecutor returned neither a plan nor an error, and the
\* executeSelectStatement call it was made in has returned.
ReturnedWithoutPlan == SelectCallReturned /\ ~cpPlan /\ cpErr = ErrNil

\* C22 as stated: when plan construction reported the empty-collection
\* condition or gave no plan and no error, no plan execution was started,
\* exactly one empty Result is in the sink and nil is returned.
C22_AsStated ==
    ReturnedWithoutPlan =>
        /\ prodPc = "idle"
        /\ sink = <<EmptyResult(seq)>>
        /\ selErr = ErrNil

\* C22, amended: the empty-collection condition leaves
\* retryCreatePipelineExecutor as no plan and no error at the attempt that
\* reported it; and without a plan no plan execution is started, exactly
\* one Send of an empty Result at seq is made, and its outcome is what the
\* call and ExecuteStatement return: nil with that Result in the sink, or
\* the Send's error with nothing delivered.
C22_EmptyResultWithoutPlan ==
    /\ (pc = "selCreated" /\ cpLast = "errEmptyColl") => (~cpPlan /\ cpErr = ErrNil)
    /\ ReturnedWithoutPlan =>
          /\ prodPc = "idle" /\ prodSent = 0 /\ execRet = "none"
          /\ sendCalls = 1
          /\ \/ selErr = ErrNil /\ sink = <<EmptyResult(seq)>>
             \/ selErr = ErrSend /\ sink = <<>>
          /\ pc = "returned" => ret = selErr

\* Plan construction reported the empty-collection condition and the
\* SELECT returned nil on its first attempt with one empty Result.
C22_Witness ==
    /\ ReturnedWithoutPlan
    /\ cpLast = "errEmptyColl"
    /\ pc = "returned" /\ ret = ErrNil
    /\ sink = <<EmptyResult(seq)>>
    /\ selI = 0

\* ------------------------------------------ properties of MergeAllNodeMessage

\* The node's raw reply does not decode: it is not JSON of the type asked
\* for, or it is of length 0 (which MergeMeasurementsNames passes over
\* without decoding it).
FailsToDecode(msg) ==
    \/ msg.Result.kind = "malformed"
    \/ msg.Result.kind = "empty" /\ msg.StatementType # "ShowMeasurementsStatement"

\* C23: when the raw reply of some node does not decode, the merge returns
\* an error with an empty result (0 for the cardinalities): nothing of the
\* replies that do decode is returned.
C23_DecodeFailureFailsMerge ==
    (mPc = "merged" /\ mKind \in MergedTypes
        /\ \E n \in DOMAIN mIn : FailsToDecode(mIn[n])) =>
        /\ mOut.err
        /\ mOut.val = IF mKind \in {"ShowSeriesCardinalityStatement",
                                     "ShowMeasurementCardinalityStatement"}
                      THEN 0 ELSE <<>>

\* Two nodes answered show tag keys; the first reply decodes to one
\* measurement's keys, the second does not decode; the merge failed.
C23_Witness ==
    /\ mPc = "merged"
    /\ mKind = "ShowTagKeysStatement"
    /\ Len(mIn) = 2
    /\ mIn[1].Result.kind = "json" /\ mIn[1].Result.val # <<>>
    /\ mIn[2].Result.kind = "malformed"
    /\ mOut.err

\* ------------------------------------------ properties of the read-only warning

\* The kinds with side effects that the dispatcher executes.
SideEffectKinds ==
    {"CreateDatabase", "DropDatabase", "CreateRetentionPolicy",
     "AlterRetentionPolicy", "DropRetentionPolicy", "CreateMeasurement",
     "AlterShardKey", "DropMeasurement", "CreateUser", "DropUser",
     "CreateSubscription", "DropSubscription", "CreateContinuousQuery",
     "DropContinuousQuery", "CreateStream", "DropStreams", "CreateDownSample",
     "DropDownSample", "Grant", "GrantAdmin", "Revoke", "RevokeAdmin",
     "SetPasswordUser", "SetConfig", "KillQuery"}

\* C24 as stated: a statement of a kind with side effects is executed
\* whether or not the context is read-only, and the Result sent when it
\* succeeded carries the read-only warning exactly when the context is
\* read-only.
C24_AsStated ==
    (stmtKind \in SideEffectKinds /\ ~stmtHost /\ pc = "returned") =>
        /\ called # {}
        /\ \A i \in 1..Len(sink) :
              sink[i].messages = IF ctxReadOnly THEN <<"ReadOnlyWarning">> ELSE <<>>

\* --------------------------------- properties of panics in plan construction

\* C25 as stated: a panic of plan construction unwinds ExecuteStatement
\* only when its value is the DtypeNotSupport error; after any other panic
\* the executeSelectStatement call returns an error, and so does
\* ExecuteStatement.
C25_AsStated ==
    /\ pc = "panicked" => cpLast = "panicDtype"
    /\ (stmtKind = "Select" /\ cpLast = "panicOther") =>
          /\ pc # "panicked"
          /\ pc \in {"selReturned", "returned"} => selErr # ErrNil
          /\ pc = "returned" => ret # ErrNil

\* ------------------------------- properties of retryCreatePipelineExecutor

\* The errors retryCreatePipelineExecutor is to try again on.
CreateRetryClass(err) ==
    IsRetriedError(err) \/ ErrorContains(err, "max message size")

\* The step is one iteration of the loop of retryCreatePipelineExecutor.
CreateIteration == pc = "cpLoop" /\ (pc' # "cpLoop" \/ cpNow' # cpNow)

\* C26: an iteration of retryCreatePipelineExecutor goes round again only
\* after one sleep (cpNow' is the attempt's end plus the sleep), on an
\* error of the retried class or a max-message-size error, with the budget
\* not used up when the attempt ended; an iteration that ends on an error
\* (the empty-collection condition apart) returns that error and no plan
\* without a further attempt, and for an error of the class it does so only
\* with the budget used up.
C26_CreateRetriesWithinBudget ==
    [][CreateIteration =>
         /\ pc' = "cpLoop" =>
               /\ cpLast' \in CreateErrors
               /\ CreateRetryClass(cpLast')
               /\ cpNow' - 1 < DMLTimeOut
               /\ cpNow' >= cpNow + 1
               /\ cpRetryNum' = cpRetryNum + 1
               /\ UNCHANGED <<cpPlan, cpErr>>
         /\ (pc' # "cpLoop" /\ cpLast' \in CreateErrors
               /\ ~ErrorContains(cpLast', "declare empty collection")) =>
               /\ pc' = "selCreated"
               /\ cpErr' = cpLast'
               /\ ~cpPlan'
               /\ cpRetryNum' = cpRetryNum
               /\ CreateRetryClass(cpLast') => cpNow' >= DMLTimeOut
    ]_vars

\* After at least one retry the budget was used up on a max-message-size
\* error, which retryCreatePipelineExecutor returned with no plan.
C26_Witness ==
    /\ pc = "selCreated"
    /\ cpRetryNum >= 1
    /\ cpLast = "errMaxMsg"
    /\ cpErr = "errMaxMsg"
    /\ ~cpPlan
    /\ cpNow >= DMLTimeOut

\* ------------------------------- properties of retryExecuteSelectStatement

\* executeSelectStatement is running: attempt selI + 1 of the SELECT.
SelectAttemptRunning ==
    pc \in {"cpLoop", "selCreated", "selLoop", "selWait", "selReturned"}

\* C27: retryExecuteSelectStatement runs attempt i + 1 for i below 8 only,
\* and only after every earlier attempt ended on a partition-view retry
\* error; after the failed attempt of index i it waits 2^i intervals; it
\* returns the error of the attempt that ended it, which is nil, an error
\* outside the partition-view retry class, or the error of the 8th attempt.
C27_SelectRetriesWithBackoff ==
    /\ [](stmtKind = "Select" =>
            /\ selI <= maxRetrySelectCount
            /\ SelectAttemptRunning => selI < maxRetrySelectCount
            /\ (selI > 0 /\ pc \in {"selRetry", "cpLoop"}) =>
                  /\ selErr # ErrNil
                  /\ IsRetryErrorForPtView(selErr)
                  /\ selBackoff = 2 ^ (selI - 1)
            /\ pc = "returned" =>
                  /\ ret = selErr
                  /\ \/ ret = ErrNil
                     \/ ~IsRetryErrorForPtView(ret)
                     \/ selI = maxRetrySelectCount)
    /\ [][(pc = "selReturned" /\ pc' # pc) =>
            IF selErr # ErrNil /\ IsRetryErrorForPtView(selErr)
            THEN /\ pc' = "selRetry"
                 /\ selI' = selI + 1
                 /\ selBackoff' = 2 ^ selI
            ELSE /\ pc' = "returned"
                 /\ ret' = selErr
                 /\ selI' = selI
       ]_vars

\* Eight attempts each ended on a partition-view retry error; the wait after
\* the last was 2^7 intervals and its error was returned.
C27_Witness ==
    /\ stmtKind = "Select"
    /\ pc = "returned"
    /\ selI = maxRetrySelectCount
    /\ selBackoff = 2 ^ (maxRetrySelectCount - 1)
    /\ ret # ErrNil
    /\ IsRetryErrorForPtView(ret)

\* ------------------------------------ properties of the end of the stream

\* C28: once the receive loop has seen proxy.rc closed, the caller leaves
\* wg.Wait() only with the producer goroutine done, and it does leave; what
\* it then reads from ec is what ExecuteExecutor returned, and when that is
\* an error the caller returns it and sends nothing, batch emitted or not.
C28_ExecErrorIsTerminal ==
    /\ [][(pc = "selWait" /\ pc' # pc) =>
            /\ reachedWait
            /\ prodPc = "done"
            /\ ec # <<>>
            /\ Head(ec) = execRet
            /\ pc' = "selReturned"
            /\ execRet # ErrNil =>
                  /\ selErr' = execRet
                  /\ sink' = sink
                  /\ sendCalls' = sendCalls
       ]_vars
    /\ (pc = "selWait") ~> (pc = "selReturned")

\* The plan failed without a batch: the caller came through wg.Wait(),
\* returned the plan's error and the sink holds nothing.
C28_Witness ==
    /\ pc = "selReturned"
    /\ reachedWait
    /\ prodPc = "done"
    /\ execRet # ErrNil
    /\ selErr = execRet
    /\ ~emitted
    /\ sink = <<>>
    /\ sendCalls = 0

\* -------------------------------------- properties of combineQueryExeInfos

\* The map combineQueryExeInfos holds before and after entry k of the list
\* of the node being combined.
MapBeforeEntry(k) ==
    combineQueryExeInfos(resMap, SubSeq(qInfos[qNode + 1].infos, 1, k - 1),
                         Host(qNode + 1))
MapAfterEntry(k) ==
    combineQueryExeInfos(resMap, SubSeq(qInfos[qNode + 1].infos, 1, k),
                         Host(qNode + 1))

\* The running and killed hosts of an entry after host h reported state rs.
HostsWith(hosts, h, rs, which) == IF rs = which THEN hosts \cup {h} ELSE hosts

\* What entry k of the list does to the map, as C29 has it.
EntryFoldedAsStated(k) ==
    LET info == qInfos[qNode + 1].infos[k]
        h == Host(qNode + 1)
        before == MapBeforeEntry(k)
        after == MapAfterEntry(k)
        id == info.QueryID
        fresh == [qid |-> id, stmt |-> info.Stmt, database |-> info.Database,
                  beginTime |-> info.BeginTime,
                  runningHosts |-> HostsWith({}, h, info.RunState, Running),
                  killedHosts |-> HostsWith({}, h, info.RunState, Killed)]
    IN  /\ DOMAIN after = DOMAIN before \cup {id}
        /\ \A other \in DOMAIN before : other # id => after[other] = before[other]
        /\ IF id \notin DOMAIN before
           THEN after[id] = fresh
           ELSE IF before[id].stmt = info.Stmt
           THEN after[id] =
                  [before[id] EXCEPT
                     !.beginTime = IF info.BeginTime < @ THEN info.BeginTime ELSE @,
                     !.runningHosts = HostsWith(@, h, info.RunState, Running),
                     !.killedHosts = HostsWith(@, h, info.RunState, Killed)]
           ELSE IF info.BeginTime > before[id].beginTime
           THEN after[id] = fresh
           ELSE after[id] = before[id]

\* C29: in every call of combineQueryExeInfos each entry of the node's list
\* is folded so: under a known id with the same text the combined entry
\* keeps its fields but for beginTime, lowered to the entry's when that is
\* earlier, and the host, added to the running or the killed set; under a
\* known id with another text the combined entry is replaced by a fresh one
\* holding only the reporting host when the entry began strictly later, and
\* is left as it is otherwise; the map after the last entry is the result.
C29_EntriesFoldedById ==
    [][(qPc = "combine" /\ qNode' = qNode + 1) =>
         /\ \A k \in 1..Len(qInfos[qNode + 1].infos) : EntryFoldedAsStated(k)
         /\ resMap' = MapAfterEntry(Len(qInfos[qNode + 1].infos))
      ]_vars

\* Node 2 reported query 1 with another text and a later begin, killed there:
\* the combined entry was replaced and holds host 2 alone, as killed.
C29_Witness ==
    /\ qNode >= 2
    /\ qInfos[1].infos = <<QueryExeInfo(1, "select A", 1, Running)>>
    /\ qInfos[2].infos = <<QueryExeInfo(1, "select B", 2, Killed)>>
    /\ resMap[1].stmt = "select B"
    /\ resMap[1].beginTime = 2
    /\ resMap[1].runningHosts = {}
    /\ resMap[1].killedHosts = {2}

\* ------------------------------- properties of executeShowQueriesStatement

\* The hosts a combined entry names.
HostsOf(q) == q.runningHosts \cup q.killedHosts

\* C30: combineQueryExeInfos is first called when the goroutine of every
\* data node has stored its entries; whatever the order the goroutines ran
\* in, slot i holds what node i was asked for and is combined under the
\* host of node i; a node whose GetQueriesOnNode failed has an empty slot,
\* and the listing fails only on DataNodes, before any node was asked.
C30_FoldAfterAllFetches ==
    /\ []((qPc \in {"combine", "returned"} \/ qNode > 0 \/ resMap # <<>>) =>
            \A i \in DOMAIN qInfos : qInfos[i].stored)
    /\ [](\A i \in DOMAIN qInfos : qInfos[i].stored =>
            /\ qInfos[i].node = i
            /\ qInfos[i].failed => qInfos[i].infos = <<>>)
    /\ [](qPc = "failed" => \A i \in DOMAIN qInfos : ~qInfos[i].stored)
    /\ [][(qPc = "combine" /\ qNode' = qNode + 1) =>
            /\ resMap' = combineQueryExeInfos(resMap, qInfos[qNode + 1].infos,
                                              Host(qInfos[qNode + 1].node))
            /\ qPc' = "combine"
       ]_vars
    /\ [](\A id \in DOMAIN resMap : \A h \in HostsOf(resMap[id]) :
            \E i \in 1..qNode :
               /\ Host(qInfos[i].node) = h
               /\ ~qInfos[i].failed
               /\ \E e \in SeqToSet(qInfos[i].infos) :
                     e.QueryID = id /\ e.Stmt = resMap[id].stmt)

\* Three nodes were asked; the first failed and the other two reported the
\* same query: the listing was returned and names hosts 2 and 3 only.
C30_Witness ==
    /\ qPc = "returned"
    /\ Len(qInfos) = 3
    /\ qInfos[1].failed
    /\ qInfos[2].infos = <<QueryExeInfo(1, "select A", 1, Running)>>
    /\ qInfos[3].infos = <<QueryExeInfo(1, "select A", 2, Running)>>
    /\ DOMAIN resMap = {1}
    /\ HostsOf(resMap[1]) = {2, 3}
    /\ qRows # <<>>

\* ------------------------------------------- properties of the fan-out

\* C31: whatever the order the callbacks run in, from the failure of one
\* callback on the shared accumulator is empty and stays as it is, the flag
\* stays set, and the statement returns an error a callback returned and no
\* rows.
C31_FailureEmptiesAccumulator ==
    /\ [](hasErr <=> \E n \in DOMAIN cbPc :
                       cbPc[n] = "done" /\ cbTmp[n].err # "nil")
    /\ [](hasErr => cardRet = <<>>)
    /\ [][hasErr => (hasErr' /\ cardRet' = cardRet)]_vars
    /\ []((cardPc = "returned" /\ hasErr) =>
            /\ cardErr # "nil"
            /\ cardErr \in {cbTmp[n].err : n \in DOMAIN cbTmp}
            /\ cardRows = <<>>)

\* One node answered with counts and another failed; the statement returned
\* the failure and no rows.
C31_Witness ==
    /\ cardPc = "returned"
    /\ hasErr
    /\ cardErr = "errRpc"
    /\ cardRows = <<>>
    /\ cardRet = <<>>
    /\ \E n, m \in DOMAIN cbTmp :
          /\ cbTmp[n].err = "nil"
          /\ DOMAIN cbTmp[n].tmp # {}
          /\ cbTmp[m].err = "errRpc"

\* ------------------------------------ properties of the show-keys handlers

\* The measurements of the reply and the keys the reply holds for one.
RepliedMeasurements ==
    {n \in KeysMeasurements :
        (IF skKind \in TagKeysKinds THEN NameWithVer(n) ELSE n) \in DOMAIN skMap}
RepliedKeys(n) == skMap[IF skKind \in TagKeysKinds THEN NameWithVer(n) ELSE n]

\* The keys of a measurement a handler is to report, in ascending order:
\* all of them, and for show tag keys those after the first offset ones,
\* up to limit of them when limit is positive.
KeptKeys(n) ==
    LET ks == SortedNames(RepliedKeys(n))
        from == IF skKind = "ShowTagKeys" /\ skOffset > 0 THEN skOffset ELSE 0
        kept == {p \in 1..Len(ks) :
                    /\ p > from
                    /\ (skKind = "ShowTagKeys" /\ skLimit > 0) => p <= from + skLimit}
    IN  [i \in 1..Cardinality(kept) |-> ks[from + i]]

\* The Results the handler is to send: one per measurement left with keys,
\* by ascending name, or one empty Result when there is none.
QualifyingMeasurements == {n \in RepliedMeasurements : Len(KeptKeys(n)) > 0}
ExpectedKeysResults ==
    IF QualifyingMeasurements = {} THEN <<KeysEmptyResult>>
    ELSE LET names == SortedNames(QualifyingMeasurements)
         IN  [i \in 1..Len(names) |->
                KeysResult(KeysRow(skKind, names[i], KeptKeys(names[i])))]

\* The handler got its table and went through its Sends.
ShowKeysSent == skPc = "returned" /\ skRet \in {ErrNil, ErrSend}

\* C32 as stated: a handler that fetched its table has made one Send per
\* measurement left with keys, by ascending name, or one Send of an empty
\* Result: the sink holds all those Results, or all but the last when the
\* handler returns the error of a Send.
C32_AsStated ==
    ShowKeysSent =>
        skSink = SubSeq(ExpectedKeysResults, 1,
                        Len(ExpectedKeysResults) - (IF skRet = ErrNil THEN 0 ELSE 1))

\* C32: a handler whose Sends were all accepted has sent exactly those
\* Results and returns nil; one that returns the error of a Send has sent
\* those before the one refused and nothing after.  For show tag keys a
\* measurement whose keys number no more than a positive offset has no
\* Result, and no Result holds more than a positive limit of keys.
C32_ResultsPerMeasurementWhileAccepted ==
    /\ ShowKeysSent =>
          IF skRet = ErrNil THEN skSink = ExpectedKeysResults
          ELSE \E k \in 0..(Len(ExpectedKeysResults) - 1) :
                 skSink = SubSeq(ExpectedKeysResults, 1, k)
    /\ skKind = "ShowTagKeys" =>
          \A i \in 1..Len(skSink) : \A j \in 1..Len(skSink[i].series) :
             LET row == skSink[i].series[j]
             IN  /\ skLimit > 0 => Len(row.Values) <= skLimit
                 /\ skOffset > 0 => skOffset < Cardinality(RepliedKeys(row.Name))

\* Show tag keys with offset 1 and limit 1 over "m" with keys x, y and "n"
\* with key x alone: one Result, for "m", holding y.
C32_Witness ==
    /\ skPc = "returned"
    /\ skRet = ErrNil
    /\ skKind = "ShowTagKeys"
    /\ skOffset = 1
    /\ skLimit = 1
    /\ RepliedMeasurements = {<<109>>, <<110>>}
    /\ RepliedKeys(<<109>>) = {<<120>>, <<121>>}
    /\ RepliedKeys(<<110>>) = {<<120>>}
    /\ Len(skSink) = 1
    /\ skSink[1].series[1].Name = <<109>>
    /\ skSink[1].series[1].Values = <<<<<<121>>>>>>

\* ------------------------------------------ properties of the drop handlers

\* The first attempt of a drop database or drop retention policy found the
\* database, or the policy, missing.
DropOfMissing ==
    /\ stmtKind \in {"DropDatabase", "DropRetentionPolicy"}
    /\ Len(rsLog) >= 1
    /\ rsLog[1].missing # "none"

\* What holds of such a call up to the Send at the end of ExecuteStatement.
DropOfMissingOneAttempt ==
    /\ pc \in {"rsReturned", "returned"}
    /\ Len(rsLog) = 1
    /\ rsRetryNum = 1
    /\ rsSleeps = 0
    /\ rsErr = ErrNil
    /\ stmtKind = "DropRetentionPolicy" => "MarkRetentionPolicyDelete" \notin called

\* C33 as stated: such a call has made one attempt and no delete-mark call
\* for a retention policy, and once ExecuteStatement has returned it has
\* made one Send and returned nil.
C33_AsStated ==
    DropOfMissing =>
        /\ DropOfMissingOneAttempt
        /\ pc = "returned" => (sendCalls = 1 /\ ret = ErrNil)

\* C33: such a call has made one attempt and no delete-mark call for a
\* retention policy, and once ExecuteStatement has returned it has made one
\* Send, of a Result without rows at seq, and returned that Send's outcome:
\* nil with the Result in the sink, or the Send's error with the sink empty.
C33_DropOfMissingSendsOnce ==
    DropOfMissing =>
        /\ DropOfMissingOneAttempt
        /\ pc = "returned" =>
              /\ sendCalls = 1
              /\ ret \in {ErrNil, ErrSend}
              /\ Len(sink) = IF ret = ErrNil THEN 1 ELSE 0
              /\ \A i \in 1..Len(sink) :
                    sink[i].series = NoRows /\ sink[i].seq = seq

\* Drop retention policy of a policy the database does not hold: nil after
\* one attempt, one Result, no delete-mark call.
C33_Witness ==
    /\ stmtKind = "DropRetentionPolicy"
    /\ pc = "returned"
    /\ Len(rsLog) = 1
    /\ rsLog[1].missing = "policy"
    /\ ret = ErrNil
    /\ Len(sink) = 1
    /\ "Database" \in called
    /\ "MarkRetentionPolicyDelete" \notin called

\* ------------------------------------------------ properties of Statistics

C35_AsStated ==
    /\ [][mIn' = mIn]_vars
    /\ [](mPc = "remerged" /\ mAgain.from = "merged" => mAgain.out = mOut)

\* --------------------------------- properties of the SELECT path's returns

\* C36 as stated: when executeSelectStatement has returned after it started
\* the producer goroutine, it has seen proxy.rc closed or it has started
\* proxy.wait().
C36_AsStated ==
    (pc = "selReturned" /\ prodPc # "idle") => (closed \/ drainPc # "off")

\* The call has returned the error of a refused Send while the producer
\* goroutine is blocked in a send on proxy.rc that nobody is left to receive.
C36_ProducerLeftBlocked ==
    /\ pc = "returned" /\ ret = ErrSend
    /\ prodPc = "sending" /\ rcPending # <<>>
    /\ ~closed /\ drainPc = "off"

\* C37 as stated: retryExecuteSelectStatement goes round again only after
\* an executeSelectStatement call that delivered no Result to the sink.
C37_AsStated ==
    [][pc = "selReturned" /\ pc' = "selRetry" => sink = <<>>]_vars

\* The first row batch of the plan has been delivered by an earlier
\* executeSelectStatement call and again by the call now running.
C37_BatchDeliveredTwice ==
    /\ stmtKind = "Select" /\ selI > 0
    /\ sentEarlier
    /\ emitted /\ sink # <<>>

\* ------------------------------- properties of the fold's order of nodes

\* combineQueryExeInfos called for the nodes in the order given, from an
\* empty map.
RECURSIVE FoldQueryNodes(_, _)
FoldQueryNodes(dstMap, order) ==
    IF order = <<>> THEN dstMap
    ELSE FoldQueryNodes(combineQueryExeInfos(dstMap, qInfos[Head(order)].infos,
                                        Host(Head(order))),
                   Tail(order))

\* The orders the nodes can be taken in.
NodePermutations ==
    {f \in [DOMAIN qInfos -> DOMAIN qInfos] :
        \A i, j \in DOMAIN qInfos : i # j => f[i] # f[j]}

\* C38 as stated: once the entries of every node are folded, the map is the
\* one the fold ends with for every order of the nodes.
C38_AsStated ==
    (qPc = "combine" /\ qNode = Len(qInfos))
        => \A order \in NodePermutations : FoldQueryNodes(<<>>, order) = resMap

\* The entries of every node are folded and all of them that share a query
\* id share its text; the fold then ends with the same map in every order.
C38_SameTextSameMap ==
    (/\ qPc = "combine" /\ qNode = Len(qInfos)
     /\ \A i, j \in DOMAIN qInfos :
          \A k \in DOMAIN qInfos[i].infos, l \in DOMAIN qInfos[j].infos :
            qInfos[i].infos[k].QueryID = qInfos[j].infos[l].QueryID
                => qInfos[i].infos[k].Stmt = qInfos[j].infos[l].Stmt)
        => \A order \in NodePermutations : FoldQueryNodes(<<>>, order) = resMap

\* ------------------------------------ properties of the dispatch's ending

\* C39 as stated: a call with a statement of a kind that has a dispatch
\* branch never ends in a panic of its handler.
C39_AsStated == HasBranch(stmtKind) => pc # "panicked"

\* An explain statement without ANALYZE has reached its handler through
\* retryExecuteStatement, and the handler's panic has unwound the call.
C39_ExplainPanicked ==
    /\ stmtKind = "Explain" /\ ~stmtAnalyze
    /\ "handler" \in called /\ rsRetryNum = 1
    /\ pc = "panicked"

=============================================================================
